---- MODULE Spec2Model ----
(***************************************************************************)
(* Re-Thread fabric exchange: the service layer (auth gateway, listing     *)
(* store access, geo filter, gallery and messaging stores) and the views   *)
(* that call it, as a state machine over the vendor-hosted document store. *)
(***************************************************************************)
EXTENDS Integers, Sequences, FiniteSets, TLC

(***************************************************************************)
(* Bounds of the model.                                                    *)
(***************************************************************************)
MaxListings == 2        \* listing documents ever created (ids 1..MaxListings)
MaxConversations == 3   \* conversation documents ever created
MaxMessages == 2        \* message documents ever created
MaxMockListings == 4    \* length of the mock service's in-memory array
MaxClock == 1           \* milliseconds Date.now() advances over a behaviour
MaxCalls == 3           \* service calls started in a behaviour of Spec

(***************************************************************************)
(* Fixed-point arithmetic standing for the IEEE doubles of the source:     *)
(* a number x is held as floor(x * 2^28).  Angles are radians, coordinates *)
(* are hundredths of a degree, distances are km * 2^14.  Small distances   *)
(* (below about 3 km) carry an absolute error of up to about 0.6 km,       *)
(* large ones of a few metres; the points below keep every distance well   *)
(* away from the radii that are compared against.                          *)
(***************************************************************************)
K == 16384
ONE == K * K
PI == 843314857
HALF_PI == 421657428
NaN == -1

Abs(x) == IF x < 0 THEN -x ELSE x

\* product of two non-negative fixed-point numbers
MulFix(x, y) ==
    LET xh == x \div K  xl == x % K
        yh == y \div K  yl == y % K
    IN xh * yh + (xh * yl + xl * yh) \div K + (xl * yl) \div ONE

RECURSIVE SinSeries(_, _, _, _)
SinSeries(x2, term, n, acc) ==
    IF term = 0 THEN acc
    ELSE SinSeries(x2, MulFix(term, x2) \div ((n + 1) * (n + 2)), n + 2,
                   IF (n \div 2) % 2 = 0 THEN acc + term ELSE acc - term)

\* Math.sin on [-PI, PI]
SinPos(x) ==
    LET r == IF x > HALF_PI THEN PI - x ELSE x
        rr == IF r < 0 THEN 0 ELSE r
        s == SinSeries(MulFix(rr, rr), rr, 1, 0)
    IN IF s > ONE THEN ONE ELSE IF s < 0 THEN 0 ELSE s
sin(x) == IF x < 0 THEN -SinPos(-x) ELSE SinPos(x)

\* Math.cos on [-PI/2, PI/2]
cos(x) == sin(HALF_PI - Abs(x))

\* m * m <= a * 2^28, computed without leaving 32 bits
SquareLeq(m, a) ==
    LET mh == m \div K  ml == m % K
        t == 2 * mh * ml
        u == K * (t % K) + ml * ml
        q == mh * mh + t \div K + u \div ONE
    IN q < a \/ (q = a /\ u % ONE = 0)

RECURSIVE SqrtBisect(_, _, _)
SqrtBisect(a, lo, hi) ==
    IF hi - lo <= 1 THEN lo
    ELSE LET mid == (lo + hi) \div 2
         IN IF SquareLeq(mid, a) THEN SqrtBisect(a, mid, hi)
                                 ELSE SqrtBisect(a, lo, mid)

\* Math.sqrt on [0, 1]; NaN for a negative argument
sqrt(a) == IF a < 0 THEN NaN ELSE SqrtBisect(a, 0, ONE + 1)

RECURSIVE AtanBisect(_, _, _, _)
AtanBisect(y, x, lo, hi) ==
    IF hi - lo <= 1 THEN lo
    ELSE LET mid == (lo + hi) \div 2
         IN IF MulFix(sin(mid), x) <= MulFix(cos(mid), y)
            THEN AtanBisect(y, x, mid, hi)
            ELSE AtanBisect(y, x, lo, mid)

\* Math.atan2 for y, x >= 0; NaN propagates
atan2(y, x) ==
    IF y = NaN \/ x = NaN THEN NaN
    ELSE IF y = 0 THEN 0
    ELSE AtanBisect(y, x, 0, HALF_PI + 1)

\* toRad: hundredths of a degree to radians, x * PI / 180
toRadPos(x) == x * (PI \div 18000) + (x * (PI % 18000)) \div 18000
toRad(x) == IF x < 0 THEN -toRadPos(-x) ELSE toRadPos(x)

R == 6371

\* a distance as the source computes it, in km * 2^14, or NaN
haversineDistance(coords1, coords2) ==
    LET dLat == toRad(coords2.latitude - coords1.latitude)
        dLon == toRad(coords2.longitude - coords1.longitude)
        lat1 == toRad(coords1.latitude)
        lat2 == toRad(coords2.latitude)
        sLat == Abs(sin(dLat \div 2))
        sLon == Abs(sin(dLon \div 2))
        a == MulFix(sLat, sLat)
             + MulFix(MulFix(MulFix(sLon, sLon), cos(lat1)), cos(lat2))
        c == 2 * atan2(sqrt(a), sqrt(ONE - a))
    IN IF c < 0 THEN NaN ELSE R * (c \div K) + (R * (c % K)) \div K

\* the comparison written as distance < radiusInKm
WithinRadius_strict(d, radiusInKm) == d # NaN /\ d < radiusInKm * K

\* distance <= radiusInKm, false when the distance is NaN
WithinRadius(d, radiusInKm) == d # NaN /\ d <= radiusInKm * K

(***************************************************************************)
(* Values of the data model.                                               *)
(***************************************************************************)
GeoPoint(lat, lon) == [latitude |-> lat, longitude |-> lon]

London == GeoPoint(5151, -13)         \* the map view's first center
Regents == GeoPoint(5152, -14)        \* about 1 km from London
Romford == GeoPoint(5151, 16)         \* about 20 km from London
Origin == GeoPoint(0, 0)              \* the ISO board's center
NearAntipode == GeoPoint(0, 17990)    \* about 20004 km from Origin

Shoreditch == GeoPoint(5151, -10)     \* the mock listings' places
HydePark == GeoPoint(5149, -15)

Manchester == GeoPoint(5348, -224)    \* the geocoders' other cities
Birmingham == GeoPoint(5249, -189)

Points == {London, Regents, Romford, Origin, NearAntipode, Shoreditch, HydePark,
           Manchester}

OFFER == "offer"
REQUEST == "request"
PostType == {OFFER, REQUEST}
ListingType == {"free", "swap", "sale"}
Category == {"denim", "yarn", "cotton", "silk", "wool", "leather", "other"}

Uids == {"u1", "u2", "u3"}
NoUser == [id |-> "undefined", email |-> "", displayName |-> ""]

\* a stored listing document (the fields the code branches on)
ListingData(uid, pt, lt, cat, loc) ==
    [userId |-> uid, postType |-> pt, listingType |-> lt, category |-> cat,
     location |-> loc]

(***************************************************************************)
(* State.                                                                  *)
(*   users, listings, gallery, conversations, messages: the collections of *)
(*     the document store, each a function from document id to document;   *)
(*     messages maps a conversation id to its sub-collection, oldest first *)
(*   accounts: the vendor's auth accounts, email -> [uid, password,        *)
(*     disabled]; session: the vendor's signed-in user and whether the     *)
(*     auth-state listener still has to be told about it                   *)
(*   objects: object storage, key -> content; clock: what Date.now() last  *)
(*     returned                                                            *)
(*   map, app, form, profile, board: the state hooks of MapView, App,      *)
(*     Auth, Profile and IsoBoard                                          *)
(*   usedIds: the auto-generated document ids handed out so far            *)
(*   calls: the service call each client has in flight or last finished    *)
(*   mock: the mock service's in-memory array and its last search; fresh   *)
(*     while the array is the one that search ran over; built when the     *)
(*     application is built against the mock service                       *)
(*   hist: history, not program state: returned holds <<user1Id, user2Id,  *)
(*     id>> for every conversation lookup that returned (kept where keep   *)
(*     is set); atQuery[p] is the set of conversations that held both of   *)
(*     p's users when p's lookup query ran (for getListingsForUser, the    *)
(*     listings of the user when the query ran); onLogin is set when the  *)
(*     Auth form's current submission has called onLogin; started counts   *)
(*     the service calls started (when capped is set); shown holds the     *)
(*     center of the fetch whose result the map view stored last           *)
(***************************************************************************)
VARIABLES users, accounts, session, listings, gallery, conversations, messages,
          objects, clock, usedIds, calls, mock, hist, map, app, form, profile,
          board, messagesView, newListingForm

vendorAuth == <<accounts, session>>
blobs == <<objects, clock>>
store == <<users, vendorAuth, listings, gallery, conversations, messages, blobs, usedIds>>
views == <<map, app, form, profile, board, messagesView, newListingForm>>
vars == <<users, accounts, session, listings, gallery, conversations, messages,
          objects, clock, usedIds, calls, mock, hist, map, app, form, profile,
          board, messagesView, newListingForm>>

Procs == {1, 2}

ListingIds == 1..MaxListings
ConversationIds == 1..MaxConversations

RECURSIVE SortedSeq(_)
\* the ids of a snapshot in the store's order (ascending document id)
SortedSeq(S) ==
    IF S = {} THEN <<>>
    ELSE LET m == CHOOSE x \in S : \A y \in S : x <= y
         IN <<m>> \o SortedSeq(S \ {m})


(***************************************************************************)
(* The shape of a service call.                                            *)
(*   op, pc: the operation and the await it is suspended at                *)
(*   args: its arguments; snap: the query snapshot it holds; i: loop index *)
(*   res: the array being built; err: the vendor error caught              *)
(*   out: [kind, value], kind "returned" or "threw" once finished          *)
(*   log: the vendor calls issued, <<api, site, ok>>                       *)
(***************************************************************************)
NoOut == [kind |-> "none", value |-> ""]
IdleCall ==
    [op |-> "none", pc |-> "idle", args |-> <<>>, snap |-> <<>>, i |-> 0,
     res |-> <<>>, err |-> "", out |-> NoOut, log |-> <<>>]

\* a view's handler is suspended at its await of p's call: once the call is
\* over the handler continues before anything else starts
Awaited(p) ==
    \/ profile.awaiting /\ profile.proc = p
    \/ board.awaiting /\ board.proc = p
    \/ map.pending[p].kind # ""
    \/ board.helping[p].kind # ""
    \/ messagesView.pending[p].kind # ""
    \/ newListingForm.pending[p].kind # ""

\* a call starts when the caller's previous one is over (and, where the calls
\* of a behaviour are counted, while fewer than MaxCalls have started)
CanStart(p) ==
    /\ calls[p].pc \in {"idle", "done"}
    /\ ~Awaited(p)
    /\ hist.capped => hist.started < MaxCalls

\* one more call has started
Started(h) == IF h.capped THEN [h EXCEPT !.started = @ + 1] ELSE h

\* the user-facing message each operation re-throws
Message(op) ==
    CASE op = "uploadImage" -> "Failed to upload image. Please try again."
      [] op = "createListing" -> "Failed to create listing. Please try again."
      [] op = "getNearbyListings" -> "Failed to fetch listings. Please try again."
      [] op = "getGalleryPosts" -> "Failed to fetch gallery posts. Please try again."
      [] op = "getListingsForUser" -> "Failed to fetch your listings. Please try again."
      [] op = "deleteListing" -> "Failed to delete listing. Please try again."
      [] op = "updateListing" -> "Failed to update listing. Please try again."
      [] op = "getOrCreateConversation" -> "Failed to start conversation. Please try again."
      [] op = "sendMessage" -> "Failed to send message. Please try again."
      [] op = "signOut" -> "Failed to sign out"

\* errors the document store and the object storage raise
StoreErrors == {"unavailable"}

\* a catch block that throws the vendor's error on
Caught_rethrow(c, api, site, e) ==
    [c EXCEPT !.pc = "done", !.err = e, !.snap = <<>>, !.i = 0, !.res = <<>>,
              !.out = [kind |-> "threw", value |-> e],
              !.log = Append(@, <<api, site, FALSE>>)]

\* the catch block of an operation: log the vendor error, throw the own message
Caught(c, api, site, e) ==
    [c EXCEPT !.pc = "done", !.err = e, !.snap = <<>>, !.i = 0, !.res = <<>>,
              !.out = [kind |-> "threw", value |-> Message(c.op)],
              !.log = Append(@, <<api, site, FALSE>>)]

\* a return: the locals are gone, the value is out
Returned(c, v) ==
    [c EXCEPT !.pc = "done", !.snap = <<>>, !.i = 0, !.res = <<>>,
              !.out = [kind |-> "returned", value |-> v]]

Logged(c, api, site, ok) == [c EXCEPT !.log = Append(@, <<api, site, ok>>)]

\* getDoc(doc(db, 'users', userId)) turned into the denormalized user
UserOf(uid) ==
    IF uid \in DOMAIN users
    THEN [id |-> uid, email |-> users[uid].email, displayName |-> users[uid].displayName]
    ELSE NoUser

(***************************************************************************)
(* Listing store access.                                                   *)
(***************************************************************************)
Remove(f, id) == [x \in DOMAIN f \ {id} |-> f[x]]

\* a Listing as the service returns it: the document's fields, its id, the user
ListingOf(id, data, user) ==
    [id |-> id, userId |-> data.userId, postType |-> data.postType,
     listingType |-> data.listingType, category |-> data.category,
     location |-> data.location, user |-> user]

\* createListing up to its first await: addDoc(collection(db, 'listings'), ...)
createListing_begin(p, listingData) ==
    /\ LET c == [IdleCall EXCEPT !.op = "createListing", !.args = [listingData |-> listingData]]
       IN \/ \E id \in ListingIds \ usedIds.listings :
               /\ listings' = listings @@ (id :> listingData)
               /\ usedIds' = [usedIds EXCEPT !.listings = @ \cup {id}]
               /\ calls' = [calls EXCEPT ![p] =
                      Logged([c EXCEPT !.pc = "getDoc", !.res = id], "addDoc", 0, TRUE)]
          \/ \E e \in StoreErrors :
               /\ calls' = [calls EXCEPT ![p] = Caught(c, "addDoc", 0, e)]
               /\ UNCHANGED <<listings, usedIds>>
    /\ UNCHANGED <<users, vendorAuth, gallery, conversations, messages, blobs, mock>>

\* createListing called outside the views
createListing(p, listingData) ==
    /\ CanStart(p)
    /\ createListing_begin(p, listingData)
    /\ hist' = Started(hist)
    /\ UNCHANGED views

\* createListing after addDoc: the user lookup, whose failure is only warned about
createListing_getDoc(p) ==
    LET c == calls[p] IN
    /\ c.op = "createListing" /\ c.pc = "getDoc"
    /\ \/ calls' = [calls EXCEPT ![p] =
              Returned(Logged(c, "getDoc", 0, TRUE),
                       ListingOf(c.res, c.args.listingData, UserOf(c.args.listingData.userId)))]
       \/ calls' = [calls EXCEPT ![p] =
              Returned(Logged(c, "getDoc", 0, FALSE),
                       ListingOf(c.res, c.args.listingData, NoUser))]
    /\ UNCHANGED <<store, mock, hist, views>>

\* a deleteListing that clears the collection
deleteListing_all(p, listingId) ==
    /\ CanStart(p)
    /\ LET c == [IdleCall EXCEPT !.op = "deleteListing", !.args = [listingId |-> listingId]]
       IN \/ /\ listings' = <<>>
             /\ calls' = [calls EXCEPT ![p] = Returned(Logged(c, "deleteDoc", 0, TRUE), "void")]
          \/ \E e \in StoreErrors :
               /\ calls' = [calls EXCEPT ![p] = Caught(c, "deleteDoc", 0, e)]
               /\ UNCHANGED listings
    /\ hist' = Started(hist)
    /\ UNCHANGED <<users, vendorAuth, gallery, conversations, messages, blobs, usedIds, mock, views>>

\* deleteListing: deleteDoc(doc(db, 'listings', listingId))
deleteListing(p, listingId) ==
    /\ CanStart(p)
    /\ LET c == [IdleCall EXCEPT !.op = "deleteListing", !.args = [listingId |-> listingId]]
       IN \/ /\ listings' = Remove(listings, listingId)
             /\ calls' = [calls EXCEPT ![p] = Returned(Logged(c, "deleteDoc", 0, TRUE), "void")]
          \/ \E e \in StoreErrors :
               /\ calls' = [calls EXCEPT ![p] = Caught(c, "deleteDoc", 0, e)]
               /\ UNCHANGED listings
    /\ hist' = Started(hist)
    /\ UNCHANGED <<users, vendorAuth, gallery, conversations, messages, blobs, usedIds, mock, views>>

\* deleteListing called from a view
deleteListing_call(p, listingId) ==
    /\ CanStart(p)
    /\ LET c == [IdleCall EXCEPT !.op = "deleteListing", !.args = [listingId |-> listingId]]
       IN \/ /\ listings' = Remove(listings, listingId)
             /\ calls' = [calls EXCEPT ![p] = Returned(Logged(c, "deleteDoc", 0, TRUE), "void")]
          \/ \E e \in StoreErrors :
               /\ calls' = [calls EXCEPT ![p] = Caught(c, "deleteDoc", 0, e)]
               /\ UNCHANGED listings
    /\ UNCHANGED <<users, vendorAuth, gallery, conversations, messages, blobs, usedIds, mock>>

\* the fields of data written over those of the document
Merge(docData, data) ==
    [f \in DOMAIN docData |-> IF f \in DOMAIN data THEN data[f] ELSE docData[f]]

\* updateListing: updateDoc(doc(db, 'listings', listingId), updateData);
\* the store rejects the update of a document that does not exist
updateListing(p, listingId, data) ==
    /\ CanStart(p)
    /\ LET c == [IdleCall EXCEPT !.op = "updateListing",
                                 !.args = [listingId |-> listingId, data |-> data]]
       IN \/ /\ listingId \in DOMAIN listings
             /\ listings' = [listings EXCEPT ![listingId] = Merge(@, data)]
             /\ calls' = [calls EXCEPT ![p] = Returned(Logged(c, "updateDoc", 0, TRUE), "void")]
          \/ \E e \in StoreErrors \cup {"not-found"} :
               /\ e = "not-found" <=> listingId \notin DOMAIN listings
               /\ calls' = [calls EXCEPT ![p] = Caught(c, "updateDoc", 0, e)]
               /\ UNCHANGED listings
    /\ hist' = Started(hist)
    /\ UNCHANGED <<users, vendorAuth, gallery, conversations, messages, blobs, usedIds, mock, views>>

(***************************************************************************)
(* Geo filter.                                                             *)
(***************************************************************************)
\* listingsSnapshot.docs: the documents of a collection, by ascending id
Docs(coll, ids) ==
    LET order == SortedSeq(ids)
    IN [k \in 1..Len(order) |-> [id |-> order[k], data |-> coll[order[k]]]]

\* const distance = haversineDistance(center, data.location), for the points used
\* (tabulated once: @@ makes the table explicit)
distance == [c \in Points, l \in Points |-> haversineDistance(c, l)] @@ <<>>

\* getNearbyListings up to its first await: getDocs(collection(db, 'listings'))
getNearbyListings_begin(p, center, radiusInKm) ==
    LET c == [IdleCall EXCEPT !.op = "getNearbyListings",
                              !.args = [center |-> center, radiusInKm |-> radiusInKm]]
    IN \/ calls' = [calls EXCEPT ![p] =
              Logged([c EXCEPT !.pc = "loop", !.snap = Docs(listings, DOMAIN listings),
                               !.i = 1, !.res = <<>>], "getDocs", 0, TRUE)]
       \/ \E e \in StoreErrors : calls' = [calls EXCEPT ![p] = Caught(c, "getDocs", 0, e)]

\* getNearbyListings called by a caller whose previous call is over
getNearbyListings_call(p, center, radiusInKm) ==
    /\ CanStart(p)
    /\ getNearbyListings_begin(p, center, radiusInKm)
    /\ UNCHANGED <<store, mock>>

\* getNearbyListings called outside the views
getNearbyListings(p, center, radiusInKm) ==
    /\ getNearbyListings_call(p, center, radiusInKm)
    /\ hist' = Started(hist)
    /\ UNCHANGED views

\* the loop with the push inside the try block: a failed user lookup loses
\* the listing
getNearbyListings_loop_dropping(p) ==
    LET c == calls[p] IN
    /\ c.op = "getNearbyListings" /\ c.pc = "loop" /\ c.i <= Len(c.snap)
    /\ LET d == c.snap[c.i] IN
       IF WithinRadius(distance[c.args.center, d.data.location], c.args.radiusInKm)
       THEN \/ calls' = [calls EXCEPT ![p] =
                   Logged([c EXCEPT !.i = @ + 1,
                                    !.res = Append(@, ListingOf(d.id, d.data, UserOf(d.data.userId)))],
                          "getDoc", c.i, TRUE)]
            \/ calls' = [calls EXCEPT ![p] =
                   Logged([c EXCEPT !.i = @ + 1], "getDoc", c.i, FALSE)]
       ELSE calls' = [calls EXCEPT ![p] = [c EXCEPT !.i = @ + 1]]
    /\ UNCHANGED <<store, mock, hist, views>>

\* one turn of the for loop: the distance test and, within the radius, the
\* user lookup (failure only warned about) and the push
getNearbyListings_loop(p) ==
    LET c == calls[p] IN
    /\ c.op = "getNearbyListings" /\ c.pc = "loop" /\ c.i <= Len(c.snap)
    /\ LET d == c.snap[c.i] IN
       IF WithinRadius(distance[c.args.center, d.data.location], c.args.radiusInKm)
       THEN \/ calls' = [calls EXCEPT ![p] =
                   Logged([c EXCEPT !.i = @ + 1,
                                    !.res = Append(@, ListingOf(d.id, d.data, UserOf(d.data.userId)))],
                          "getDoc", c.i, TRUE)]
            \/ calls' = [calls EXCEPT ![p] =
                   Logged([c EXCEPT !.i = @ + 1,
                                    !.res = Append(@, ListingOf(d.id, d.data, NoUser))],
                          "getDoc", c.i, FALSE)]
       ELSE calls' = [calls EXCEPT ![p] = [c EXCEPT !.i = @ + 1]]
    /\ UNCHANGED <<store, mock, hist, views>>

\* the loop is over: return listings
getNearbyListings_return(p) ==
    LET c == calls[p] IN
    /\ c.op = "getNearbyListings" /\ c.pc = "loop" /\ c.i > Len(c.snap)
    /\ calls' = [calls EXCEPT ![p] = Returned(c, c.res)]
    /\ UNCHANGED <<store, mock, hist, views>>

(***************************************************************************)
(* The mock service: in-memory arrays, no failures.                        *)
(***************************************************************************)
mockUsers == {"u1", "u2"}
MockUserOf(uid) ==
    IF uid \in mockUsers
    THEN [id |-> uid,
          email |-> IF uid = "u1" THEN "crafter@example.com" ELSE "designer@example.com",
          displayName |-> IF uid = "u1" THEN "Alice" ELSE "Bob"]
    ELSE NoUser

MockListing(id, data) ==
    [id |-> id, userId |-> data.userId, postType |-> data.postType,
     listingType |-> data.listingType, category |-> data.category,
     location |-> data.location]

mockListings ==
    << MockListing(1, ListingData("u1", OFFER, "free", "denim", Shoreditch)),
       MockListing(2, ListingData("u2", OFFER, "swap", "yarn", Regents)),
       MockListing(3, ListingData("u1", REQUEST, "swap", "silk", HydePark)) >>

\* the mock createListing: push with id listing<length + 1>
mockCreateListing(listingData) ==
    /\ Len(mock.listings) < MaxMockListings
    /\ mock' = [mock EXCEPT !.listings =
                   Append(@, MockListing(Len(mock.listings) + 1, listingData)),
                            !.fresh = FALSE]
    /\ UNCHANGED <<store, calls, hist, views>>

\* the mock getNearbyListings: map in the user, filter by distance
mockNearby(list, center, radiusInKm) ==
    LET mapped == [k \in 1..Len(list) |->
                      ListingOf(list[k].id, list[k], MockUserOf(list[k].userId))]
        keep(l) == WithinRadius(distance[center, l.location], radiusInKm)
    IN SelectSeq(mapped, keep)

mockGetNearbyListings(center, radiusInKm) ==
    /\ mock' = [mock EXCEPT !.center = center, !.radiusInKm = radiusInKm,
                            !.results = mockNearby(mock.listings, center, radiusInKm),
                            !.fresh = TRUE]
    /\ UNCHANGED <<store, calls, hist, views>>

MockInit == [listings |-> mockListings, center |-> London, radiusInKm |-> 0,
             results |-> <<>>, fresh |-> FALSE, built |-> FALSE]

(***************************************************************************)
(* Messaging store.                                                        *)
(***************************************************************************)
Conversation(user1Id, user2Id) ==
    [participantIds |-> <<user1Id, user2Id>>, lastMessageText |-> ""]

\* data.participantIds.includes(userId)
Includes(participantIds, userId) ==
    \E k \in 1..Len(participantIds) : participantIds[k] = userId

\* where('participantIds', 'array-contains', userId)
ArrayContains(coll, userId) ==
    {id \in DOMAIN coll : Includes(coll[id].participantIds, userId)}

\* getOrCreateConversation up to its first await: the query for user1's threads
getOrCreateConversation_call(p, user1Id, user2Id) ==
    /\ CanStart(p)
    /\ LET c == [IdleCall EXCEPT !.op = "getOrCreateConversation",
                                 !.args = [user1Id |-> user1Id, user2Id |-> user2Id]]
       IN \/ /\ calls' = [calls EXCEPT ![p] =
                    Logged([c EXCEPT !.pc = "scan",
                                     !.snap = Docs(conversations, ArrayContains(conversations, user1Id))],
                           "getDocs", 0, TRUE)]
             /\ hist' = [Started(hist) EXCEPT !.atQuery[p] =
                             {id \in DOMAIN conversations :
                                 /\ Includes(conversations[id].participantIds, user1Id)
                                 /\ Includes(conversations[id].participantIds, user2Id)}]
          \/ \E e \in StoreErrors :
               /\ calls' = [calls EXCEPT ![p] = Caught(c, "getDocs", 0, e)]
               /\ hist' = [Started(hist) EXCEPT !.atQuery[p] = {}]
    /\ UNCHANGED <<store, mock>>

\* getOrCreateConversation called outside the views
getOrCreateConversation(p, user1Id, user2Id) ==
    /\ getOrCreateConversation_call(p, user1Id, user2Id)
    /\ UNCHANGED views

\* the indices of a snapshot whose document also includes the user
Matches(snap, userId) ==
    {k \in 1..Len(snap) : Includes(snap[k].data.participantIds, userId)}

\* the test looking at the second participant slot only
Matches_secondSlot(snap, userId) ==
    {k \in 1..Len(snap) : snap[k].data.participantIds[2] = userId}

\* the for loop and what follows it, over a snapshot with its matching
\* indices: return the first match, or addDoc the new thread and return its id
ScanOrInsert(p, snap, matches, newConversation) ==
    LET c == calls[p] IN
    /\ c.op = "getOrCreateConversation" /\ c.pc = "scan"
    /\ IF matches # {}
       THEN LET k == CHOOSE k \in matches : \A j \in matches : k <= j IN
            /\ calls' = [calls EXCEPT ![p] = Returned(c, snap[k].id)]
            /\ hist' = [hist EXCEPT !.returned =
                            IF hist.keep
                            THEN @ \cup {<<c.args.user1Id, c.args.user2Id, snap[k].id>>}
                            ELSE @]
            /\ UNCHANGED store
       ELSE \/ \E id \in ConversationIds \ usedIds.conversations :
                 /\ conversations' = conversations @@ (id :> newConversation)
                 /\ usedIds' = [usedIds EXCEPT !.conversations = @ \cup {id}]
                 /\ calls' = [calls EXCEPT ![p] = Returned(Logged(c, "addDoc", 0, TRUE), id)]
                 /\ hist' = [hist EXCEPT !.returned =
                                 IF hist.keep
                                 THEN @ \cup {<<c.args.user1Id, c.args.user2Id, id>>}
                                 ELSE @]
                 /\ UNCHANGED <<users, vendorAuth, listings, gallery, messages, blobs>>
            \/ \E e \in StoreErrors :
                 /\ calls' = [calls EXCEPT ![p] = Caught(c, "addDoc", 0, e)]
                 /\ UNCHANGED <<store, hist>>
    /\ UNCHANGED <<mock, views>>

\* the scan looking at the second slot only
getOrCreateConversation_scan_secondSlot(p) ==
    LET c == calls[p] IN
    ScanOrInsert(p, c.snap, Matches_secondSlot(c.snap, c.args.user2Id),
                 Conversation(c.args.user1Id, c.args.user2Id))

\* the lookup repeated together with the insert, as a transaction would
getOrCreateConversation_scan_transaction(p) ==
    LET c == calls[p]
        now == Docs(conversations, ArrayContains(conversations, c.args.user1Id))
    IN ScanOrInsert(p, now, Matches(now, c.args.user2Id),
                    Conversation(c.args.user1Id, c.args.user2Id))

\* the new thread stored as [user2Id, user1Id]
getOrCreateConversation_scan_swapped(p) ==
    LET c == calls[p] IN
    ScanOrInsert(p, c.snap, Matches(c.snap, c.args.user2Id),
                 Conversation(c.args.user2Id, c.args.user1Id))

\* getOrCreateConversation after the query: scan the snapshot, then insert
getOrCreateConversation_scan(p) ==
    LET c == calls[p] IN
    ScanOrInsert(p, c.snap, Matches(c.snap, c.args.user2Id),
                 Conversation(c.args.user1Id, c.args.user2Id))

(***************************************************************************)
(* Initial stores.                                                         *)
(***************************************************************************)
Account(uid, password, displayName, disabled) ==
    [uid |-> uid, password |-> password, displayName |-> displayName,
     disabled |-> disabled]

\* the vendor's user object; uid "" stands for null
FirebaseUser(uid, email, displayName) ==
    [uid |-> uid, email |-> email, displayName |-> displayName]
NoFirebaseUser == FirebaseUser("", "", "")

\* Auth's useState initial values; awaiting: a submit handler is suspended
\* at its await
FormInit == [isSignUp |-> FALSE, isLoading |-> FALSE, error |-> "", awaiting |-> FALSE]

\* Profile's useState initial values; mounted: the view is rendered; awaiting:
\* fetchUserListings is suspended at its await of the call of client proc
ProfileInit ==
    [mounted |-> FALSE, awaiting |-> FALSE, proc |-> 0, listings |-> <<>>,
     isLoading |-> TRUE, error |-> ""]

\* no handleHelp is waiting for a client's call
NoHelp == [kind |-> "", requestId |-> 0, userId |-> ""]

\* IsoBoard's useState initial values (sendingMessageId 0 for null); alert:
\* the text of the last alert; helping[p]: the handleHelp suspended at its
\* await of client p's call (kind "lookup" or "send"), with the request and
\* the user of its closure
BoardInit ==
    [mounted |-> FALSE, awaiting |-> FALSE, proc |-> 0, requests |-> <<>>,
     isLoading |-> TRUE, error |-> "", sendingMessageId |-> 0, alert |-> "",
     helping |-> [p \in Procs |-> NoHelp]]

\* no handler of the messages view is waiting for a client's call
NoLoad == [kind |-> "", conversationId |-> 0, messages |-> <<>>]

\* MessagesView's useState initial values (selectedConversation 0 for null);
\* mounted: the effect on mount has run; pending[p]: the handler suspended at
\* its await of client p's call (kind "conversations", "load", "send" or
\* "reload"), with the conversation and the messages of its closure
MessagesViewInit ==
    [mounted |-> FALSE, conversations |-> <<>>, selectedConversation |-> 0,
     messages |-> <<>>, newMessageText |-> "", loadingConversations |-> TRUE,
     loadingMessages |-> FALSE, sendingMessage |-> FALSE, error |-> "",
     pending |-> [p \in Procs |-> NoLoad]]

\* no file chosen (imageFile null)
NoFile == [name |-> "", content |-> ""]

\* no handleSubmit of the new-listing form is waiting for a client's call
NoSubmit ==
    [kind |-> "", imageFile |-> NoFile, locationName |-> <<>>, userId |-> "",
     location |-> London, unmounted |-> FALSE]

\* NewListingForm's useState initial values; pending[p]: the handleSubmit
\* suspended at its await of client p's call (kind "geocode", "upload" or
\* "create"), with the values of its closure; unmounted: the form that
\* started it is no longer rendered, so its setState calls do nothing
NewListingFormInit ==
    [postType |-> OFFER, listingType |-> "free", category |-> "other",
     locationName |-> <<>>, imageFile |-> NoFile,
     isLoading |-> FALSE, error |-> "", pending |-> [p \in Procs |-> NoSubmit]]

\* no handler of the map view is waiting for a client's call
NoPending == [kind |-> "", center |-> London]

\* MapView's useState initial values; mounted: the effect on mount has run;
\* locating: getCurrentPosition has not called back yet; pending[p]: the
\* handler suspended at its await of client p's call (kind "fetch", "search"
\* or "delete") and the center its closure holds
MapInit ==
    [listings |-> <<>>, filteredListings |-> <<>>, center |-> London,
     searchQuery |-> <<"L", "o", "n", "d", "o", "n">>,
     isLoading |-> TRUE, error |-> "",
     categoryFilter |-> "all", listingTypeFilter |-> "all", postTypeFilter |-> OFFER,
     mounted |-> FALSE, locating |-> FALSE, pending |-> [p \in Procs |-> NoPending]]

UserDoc(uid) ==
    [email |-> IF uid = "u1" THEN "crafter@example.com"
               ELSE IF uid = "u2" THEN "designer@example.com" ELSE "weaver@example.com",
     displayName |-> IF uid = "u1" THEN "Alice" ELSE IF uid = "u2" THEN "Bob" ELSE "Cy"]

Empty == <<>>
NoIds == [listings |-> {}, conversations |-> {}]
NoHist == [keep |-> FALSE, returned |-> {}, atQuery |-> [p \in Procs |-> {}],
           onLogin |-> FALSE, capped |-> FALSE, started |-> 0, shown |-> <<>>]

\* one registered user with a profile document, nothing else stored
InitBackend ==
    /\ users = ("u1" :> UserDoc("u1"))
    /\ accounts = (UserDoc("u1").email :> Account("u1", "secret1", "Alice", FALSE))
    /\ session = [user |-> NoFirebaseUser, pending |-> TRUE]
    /\ listings = Empty
    /\ gallery = Empty
    /\ conversations = Empty
    /\ messages = Empty
    /\ objects = Empty
    /\ clock = 0
    /\ usedIds = NoIds
    /\ calls = [p \in Procs |-> IdleCall]

\* the hooks' initial values (useState)
InitViews ==
    /\ map = MapInit
    /\ app = [user |-> NoUser, loadingAuth |-> TRUE, currentView |-> "map"]
    /\ form = FormInit
    /\ profile = ProfileInit
    /\ board = BoardInit
    /\ messagesView = MessagesViewInit /\ newListingForm = NewListingFormInit

InitOneUser ==
    /\ InitBackend
    /\ InitViews
    /\ mock = MockInit
    /\ hist = NoHist

(***************************************************************************)
(* SpecGeo: one client creating, moving and deleting listings and          *)
(* searching around a center; the mock service beside it.                  *)
(***************************************************************************)
GeoInputs ==
    { ListingData("u1", OFFER, "free", "denim", London),
      ListingData("u1", REQUEST, "swap", "silk", Regents),
      ListingData("u2", OFFER, "sale", "yarn", Romford),
      ListingData("u2", REQUEST, "swap", "wool", Origin) }
GeoCenters == {London, Origin}
GeoRadii == {0, 15, 20000}

\* the application is built against the vendor-backed service or the mock one
NextGeo ==
    \/ /\ ~mock.built
       /\ \/ \E d \in GeoInputs : createListing(1, d)
          \/ createListing_getDoc(1)
          \/ \E id \in ListingIds : deleteListing(1, id)
          \/ \E id \in ListingIds : updateListing(1, id, [location |-> Romford])
          \/ \E c \in GeoCenters, r \in GeoRadii : getNearbyListings(1, c, r)
          \/ getNearbyListings_loop(1)
          \/ getNearbyListings_return(1)
    \/ /\ mock.built
       /\ \/ \E d \in GeoInputs : mockCreateListing(d)
          \/ \E c \in GeoCenters \cup {Regents}, r \in GeoRadii : mockGetNearbyListings(c, r)

InitGeo ==
    \E b \in BOOLEAN :
       /\ InitBackend
       /\ InitViews
       /\ mock = [MockInit EXCEPT !.built = b]
       /\ hist = NoHist

SpecGeo == InitGeo /\ [][NextGeo]_vars

(***************************************************************************)
(* The geo filter's properties.                                            *)
(***************************************************************************)
\* the number of entries of a result array that carry the given id
Occurrences(res, id) == Cardinality({k \in 1..Len(res) : res[k].id = id})

\* res is the listings of coll within the radius, each once, fields unchanged
ExactlyWithin(res, coll, ids, center, radiusInKm) ==
    /\ \A id \in ids :
          Occurrences(res, id) =
             IF /\ distance[center, coll[id].location] # NaN
                /\ distance[center, coll[id].location] <= radiusInKm * K
             THEN 1 ELSE 0
    /\ \A k \in 1..Len(res) :
          /\ res[k].id \in ids
          /\ res[k].location = coll[res[k].id].location
          /\ res[k].userId = coll[res[k].id].userId
          /\ res[k].postType = coll[res[k].id].postType

\* C1: getNearbyListings returns exactly the stored listings whose haversine
\* distance from the center is at most the radius, each exactly once and none
\* that is farther; the mock service's getNearbyListings does the same over
\* its in-memory array.
C1_NearbyExact ==
    /\ \A p \in Procs :
          (calls[p].op = "getNearbyListings" /\ calls[p].out.kind = "returned")
          => ExactlyWithin(calls[p].out.value, listings, DOMAIN listings,
                           calls[p].args.center, calls[p].args.radiusInKm)
    /\ mock.fresh
          => ExactlyWithin(mock.results,
                           [k \in 1..Len(mock.listings) |-> mock.listings[k]],
                           1..Len(mock.listings), mock.center, mock.radiusInKm)

\* a search that kept one stored listing and left another out
C1_Witness ==
    \E p \in Procs :
       /\ calls[p].op = "getNearbyListings" /\ calls[p].out.kind = "returned"
       /\ Len(calls[p].out.value) = 1
       /\ Cardinality(DOMAIN listings) = 2

\* a mock search that kept the three listings it started with and left out
\* one created since
MockWitness == mock.fresh /\ Len(mock.results) = 3 /\ Len(mock.listings) = 4

\* C10: a listing located at the search center has computed distance 0 and
\* is returned for every radius, zero included.
C10_CenterIncluded ==
    \A p \in Procs :
       (calls[p].op = "getNearbyListings" /\ calls[p].out.kind = "returned")
       => \A id \in DOMAIN listings :
             listings[id].location = calls[p].args.center
             => /\ distance[calls[p].args.center, listings[id].location] = 0
                /\ Occurrences(calls[p].out.value, id) = 1

\* a search of radius 0 that returned the listing sitting at its center
C10_Witness ==
    \E p \in Procs :
       /\ calls[p].op = "getNearbyListings" /\ calls[p].out.kind = "returned"
       /\ calls[p].args.radiusInKm = 0
       /\ \E id \in DOMAIN listings :
             /\ listings[id].location = calls[p].args.center
             /\ Occurrences(calls[p].out.value, id) = 1

\* the distances of the chosen points, against their known values in km
DistancesAsKnown ==
    /\ distance[London, London] = 0
    /\ distance[London, Regents] < 3 * K
    /\ distance[London, Romford] > 19 * K /\ distance[London, Romford] < 21 * K
    /\ distance[Origin, London] > 5727 * K /\ distance[Origin, London] < 5728 * K
    /\ distance[Origin, NearAntipode] > 20003 * K
    /\ distance[Origin, NearAntipode] < 20005 * K
    /\ \A a \in Points, b \in Points : distance[a, b] # NaN

(***************************************************************************)
(* SpecConv: two clients looking conversations up, their calls interleaved *)
(* at the awaits.  SpecConvSeq: the same calls, one at a time.             *)
(***************************************************************************)
\* the callers pass two different users (IsoBoard.handleHelp returns early
\* when the signed-in user owns the request)
ConvPairs == {pr \in Uids \X Uids : pr[1] # pr[2]}

RacePairs == {<<"u1", "u2">>, <<"u2", "u1">>, <<"u1", "u3">>}

NextConv ==
    \E p \in Procs :
       \/ \E pr \in RacePairs : getOrCreateConversation(p, pr[1], pr[2])
       \/ getOrCreateConversation_scan(p)

NextConvSeq ==
    \/ \E pr \in ConvPairs : getOrCreateConversation(1, pr[1], pr[2])
    \/ getOrCreateConversation_scan(1)

InitConvSeq ==
    /\ InitBackend
    /\ InitViews
    /\ mock = MockInit
    /\ hist = [NoHist EXCEPT !.keep = TRUE]

SpecConv == InitOneUser /\ [][NextConv]_vars
SpecConvSeq == InitConvSeq /\ [][NextConvSeq]_vars

(***************************************************************************)
(* The conversation lookup's properties.                                   *)
(***************************************************************************)
\* the documents of a conversations collection whose participants are a and b
ThreadsOf(coll, a, b) ==
    {id \in DOMAIN coll : Includes(coll[id].participantIds, a)
                          /\ Includes(coll[id].participantIds, b)}

\* C2: when lookups do not overlap, every call for a pair of users, in
\* either argument order, returns the same conversation id, and the pair
\* never has more than one conversation document.
C2_SameIdEitherOrder ==
    /\ \A r1 \in hist.returned, r2 \in hist.returned :
          {r1[1], r1[2]} = {r2[1], r2[2]} => r1[3] = r2[3]
    /\ \A pr \in ConvPairs : Cardinality(ThreadsOf(conversations, pr[1], pr[2])) <= 1

\* a pair looked up in both orders, beside another pair's conversation
C2_Witness ==
    \E r1 \in hist.returned, r2 \in hist.returned :
       /\ r1[1] = r2[2] /\ r1[2] = r2[1] /\ r1[3] = r2[3]
       /\ Cardinality(DOMAIN conversations) = 3
       /\ \E p \in Procs : calls[p].pc = "done" /\ calls[p].log = <<<<"getDocs", 0, TRUE>>>>
                           /\ calls[p].out.kind = "returned"

\* p's finished lookup ran its query when the pair had no thread yet
LookedUpEarly(p) ==
    /\ calls[p].op = "getOrCreateConversation" /\ calls[p].out.kind = "returned"
    /\ hist.atQuery[p] = {}

\* two documents for one pair of participants
Duplicated ==
    \E pr \in ConvPairs : Cardinality(ThreadsOf(conversations, pr[1], pr[2])) >= 2

\* C3: when two lookups for the same pair both run their query before
\* either inserts, both insert, and the store holds two distinct conversation
\* documents for the pair; no step ever removes the duplicate.
C3_RaceDuplicates ==
    /\ [](\A p \in Procs, q \in Procs :
            ( /\ p # q /\ LookedUpEarly(p) /\ LookedUpEarly(q)
              /\ {calls[p].args.user1Id, calls[p].args.user2Id}
                 = {calls[q].args.user1Id, calls[q].args.user2Id} )
            => /\ calls[p].out.value # calls[q].out.value
               /\ {calls[p].out.value, calls[q].out.value}
                  \subseteq ThreadsOf(conversations, calls[p].args.user1Id,
                                      calls[p].args.user2Id))
    /\ [][Duplicated => Duplicated']_vars

\* both clients looked the pair up, in opposite orders, and each inserted
C3_Witness ==
    /\ LookedUpEarly(1) /\ LookedUpEarly(2)
    /\ calls[1].args.user1Id = calls[2].args.user2Id
    /\ calls[1].args.user2Id = calls[2].args.user1Id
    /\ Duplicated

\* C4: a lookup inserts only when, at its query, no conversation containing
\* user1 also contained user2; the document inserted is participantIds
\* [user1, user2] with an empty lastMessageText; when a match existed the call
\* returns a matching id and writes nothing.
C4_InsertOnlyWhenAbsent ==
    [][\A p \in Procs :
         ( /\ calls[p].op = "getOrCreateConversation" /\ calls[p].pc = "scan"
           /\ calls'[p].pc = "done" )
         => LET u1 == calls[p].args.user1Id
                u2 == calls[p].args.user2Id
                found == hist.atQuery[p]
            IN IF found # {}
               THEN /\ conversations' = conversations
                    /\ calls'[p].out.kind = "returned"
                    /\ calls'[p].out.value \in found
               ELSE \/ /\ conversations' = conversations
                       /\ calls'[p].out.kind = "threw"
                    \/ /\ calls'[p].out.kind = "returned"
                       /\ calls'[p].out.value \notin DOMAIN conversations
                       /\ DOMAIN conversations' = DOMAIN conversations \cup {calls'[p].out.value}
                       /\ \A id \in DOMAIN conversations : conversations'[id] = conversations[id]
                       /\ conversations'[calls'[p].out.value] =
                             [participantIds |-> <<u1, u2>>, lastMessageText |-> ""]
    ]_vars

\* a lookup that returned an existing thread after another one inserted it
C4_Witness ==
    \E p \in Procs, q \in Procs :
       /\ p # q
       /\ calls[p].op = "getOrCreateConversation" /\ calls[p].out.kind = "returned"
       /\ calls[p].log = <<<<"getDocs", 0, TRUE>>>>
       /\ calls[q].op = "getOrCreateConversation" /\ calls[q].out.kind = "returned"
       /\ calls[q].log = <<<<"getDocs", 0, TRUE>>, <<"addDoc", 0, TRUE>>>>
       /\ calls[q].args.user1Id = "u2" /\ calls[q].args.user2Id = "u1"
       /\ calls[p].out.value = calls[q].out.value

(***************************************************************************)
(* MapView: the filter effect and the handlers that change its inputs.     *)
(***************************************************************************)
\* the effect without its category filter
filterListings_skipCategory(list, postTypeFilter, categoryFilter, listingTypeFilter) ==
    LET byPost(l) == l.postType = postTypeFilter
        byDeal(l) == l.postType # OFFER \/ l.listingType = listingTypeFilter
        r1 == IF postTypeFilter # "all" THEN SelectSeq(list, byPost) ELSE list
    IN IF listingTypeFilter # "all" THEN SelectSeq(r1, byDeal) ELSE r1

\* the deal-type test applied to every row, offers and requests alike
filterListings_allRows(list, postTypeFilter, categoryFilter, listingTypeFilter) ==
    LET byPost(l) == l.postType = postTypeFilter
        byCategory(l) == l.category = categoryFilter
        byDeal(l) == l.listingType = listingTypeFilter
        r1 == IF postTypeFilter # "all" THEN SelectSeq(list, byPost) ELSE list
        r2 == IF categoryFilter # "all" THEN SelectSeq(r1, byCategory) ELSE r1
    IN IF listingTypeFilter # "all" THEN SelectSeq(r2, byDeal) ELSE r2

\* the body of the filter effect: three filters applied in turn
filterListings(list, postTypeFilter, categoryFilter, listingTypeFilter) ==
    LET byPost(l) == l.postType = postTypeFilter
        byCategory(l) == l.category = categoryFilter
        byDeal(l) == l.postType # OFFER \/ l.listingType = listingTypeFilter
        r1 == IF postTypeFilter # "all" THEN SelectSeq(list, byPost) ELSE list
        r2 == IF categoryFilter # "all" THEN SelectSeq(r1, byCategory) ELSE r1
    IN IF listingTypeFilter # "all" THEN SelectSeq(r2, byDeal) ELSE r2

\* the effect on [listings, postTypeFilter, categoryFilter, listingTypeFilter]
FilterEffect(m) ==
    [m EXCEPT !.filteredListings =
        filterListings(m.listings, m.postTypeFilter, m.categoryFilter, m.listingTypeFilter)]

\* the post-type select's onChange
setPostTypeFilter(v) ==
    /\ map' = FilterEffect([map EXCEPT !.postTypeFilter = v])
    /\ UNCHANGED <<store, calls, mock, hist, app, form, profile, board,
                   messagesView, newListingForm>>

\* a category select whose onChange also turns the loading indicator on
setCategoryFilter_loading(v) ==
    /\ map' = FilterEffect([map EXCEPT !.categoryFilter = v, !.isLoading = TRUE])
    /\ UNCHANGED <<store, calls, mock, hist, app, form, profile, board,
                   messagesView, newListingForm>>

\* the category select's onChange
setCategoryFilter(v) ==
    /\ map' = FilterEffect([map EXCEPT !.categoryFilter = v])
    /\ UNCHANGED <<store, calls, mock, hist, app, form, profile, board,
                   messagesView, newListingForm>>

\* the deal-type select's onChange; the select is disabled while requests
\* are shown
setListingTypeFilter(v) ==
    /\ map.postTypeFilter # REQUEST
    /\ map' = FilterEffect([map EXCEPT !.listingTypeFilter = v])
    /\ UNCHANGED <<store, calls, mock, hist, app, form, profile, board,
                   messagesView, newListingForm>>

\* fetchListings' success path: setListings(nearbyListings), setIsLoading(false)
setListings(nearbyListings) ==
    /\ map' = FilterEffect([map EXCEPT !.listings = nearbyListings, !.isLoading = FALSE])
    /\ UNCHANGED <<store, calls, mock, hist, app, form, profile, board,
                   messagesView, newListingForm>>

(***************************************************************************)
(* SpecFilter: the map view over the arrays a fetch can hand it.           *)
(***************************************************************************)
FilterPool ==
    << ListingOf(1, ListingData("u1", OFFER, "free", "denim", London), NoUser),
       ListingOf(2, ListingData("u2", OFFER, "swap", "silk", Regents), NoUser),
       ListingOf(3, ListingData("u1", REQUEST, "swap", "silk", Regents), NoUser),
       ListingOf(4, ListingData("u2", REQUEST, "free", "denim", London), NoUser) >>

\* the sub-arrays of the pool, in the pool's order
FetchResults ==
    { LET keep(l) == l.id \in S IN SelectSeq(FilterPool, keep) : S \in SUBSET (1..4) }

NextFilter ==
    \/ \E v \in PostType \cup {"all"} : setPostTypeFilter(v)
    \/ \E v \in {"denim", "silk", "wool", "all"} : setCategoryFilter(v)
    \/ \E v \in ListingType \cup {"all"} : setListingTypeFilter(v)
    \/ \E ls \in FetchResults : setListings(ls)

SpecFilter == InitOneUser /\ [][NextFilter]_vars

\* the rows of an array
Rows(list) == {list[k] : k \in 1..Len(list)}

\* C5: the deal-type filter never changes which request listings are shown:
\* a request is in filteredListings exactly when it passes the post-type and
\* category filters, whatever listingTypeFilter is.
C5_DealTypeIgnoresRequests ==
    \A l \in Rows(map.listings) :
       l.postType = REQUEST
       => ( l \in Rows(map.filteredListings)
            <=> /\ map.postTypeFilter \in {"all", REQUEST}
                /\ map.categoryFilter \in {"all", l.category} )

\* a request whose own deal type is swap, shown while the deal-type filter
\* is set to free
C5_Witness ==
    /\ map.listingTypeFilter = "free"
    /\ \E l \in Rows(map.filteredListings) : l.postType = REQUEST /\ l.listingType = "swap"
    /\ \E l \in Rows(map.listings) : l.postType = OFFER /\ l \notin Rows(map.filteredListings)

(***************************************************************************)
(* Auth gateway.                                                           *)
(***************************************************************************)
Emails == {"crafter@example.com", "weaver@example.com", "designer@example.com",
           "not-an-email"}
Passwords == {"secret1", "abc"}

\* the vendor queues the listener's notification before the promise of the
\* call that changed the session resolves: it is delivered before any later
\* response or event
Delivered == ~session.pending

\* a handler whose awaited call has completed continues before any later
\* response or event
Resumed ==
    /\ Delivered
    /\ ~(form.awaiting /\ calls[1].op \in {"signIn", "signUp"} /\ calls[1].pc = "done")
    /\ ~(calls[2].op = "signOut" /\ calls[2].pc = "done")

\* what the vendor checks of its inputs
ValidEmail(email) == email # "not-an-email"
WeakPassword(password) == password = "abc"

\* the uid the vendor gives the account of an email
UidOf(email) ==
    IF email = "crafter@example.com" THEN "u1"
    ELSE IF email = "designer@example.com" THEN "u2" ELSE "u3"

\* email.split('@')[0]
EmailPrefix(email) ==
    IF email = "crafter@example.com" THEN "crafter"
    ELSE IF email = "designer@example.com" THEN "designer"
    ELSE IF email = "weaver@example.com" THEN "weaver" ELSE email

\* convertFirebaseUser
convertFirebaseUser(firebaseUser) ==
    [id |-> firebaseUser.uid,
     email |-> firebaseUser.email,
     displayName |-> IF firebaseUser.displayName # "" THEN firebaseUser.displayName
                     ELSE IF EmailPrefix(firebaseUser.email) # ""
                          THEN EmailPrefix(firebaseUser.email) ELSE "User"]

\* the switch of signIn's catch block without the user-not-found case
signInMessage_noUserNotFound(code) ==
    CASE code = "auth/wrong-password" -> "Invalid email or password"
      [] code = "auth/invalid-email" -> "Invalid email address"
      [] code = "auth/user-disabled" -> "This account has been disabled"
      [] code = "auth/too-many-requests" ->
            "Too many failed login attempts. Please try again later"
      [] OTHER -> "Failed to sign in. Please try again"

\* the switch of signIn's catch block
signInMessage(code) ==
    CASE code \in {"auth/user-not-found", "auth/wrong-password"} ->
            "Invalid email or password"
      [] code = "auth/invalid-email" -> "Invalid email address"
      [] code = "auth/user-disabled" -> "This account has been disabled"
      [] code = "auth/too-many-requests" ->
            "Too many failed login attempts. Please try again later"
      [] OTHER -> "Failed to sign in. Please try again"

\* the switch of signUp's catch block with only its default branch
signUpMessage_generic(code) == "Failed to create account. Please try again"

\* the switch of signUp's catch block
signUpMessage(code) ==
    CASE code = "auth/email-already-in-use" -> "Email is already registered"
      [] code = "auth/invalid-email" -> "Invalid email address"
      [] code = "auth/weak-password" -> "Password should be at least 6 characters"
      [] OTHER -> "Failed to create account. Please try again"

\* a catch block of the auth service: log the error, throw the mapped message
CaughtAuth(c, api, e, message) ==
    [c EXCEPT !.pc = "done", !.err = e, !.snap = <<>>, !.i = 0, !.res = <<>>,
              !.out = [kind |-> "threw", value |-> message],
              !.log = Append(@, <<api, 0, FALSE>>)]

\* the codes signInWithEmailAndPassword may reject these credentials with
SignInRejections(email, password) ==
    (IF ~ValidEmail(email) THEN {"auth/invalid-email"}
     ELSE IF email \notin DOMAIN accounts THEN {"auth/user-not-found"}
     ELSE IF accounts[email].disabled THEN {"auth/user-disabled"}
     ELSE IF accounts[email].password # password THEN {"auth/wrong-password"}
     ELSE {})
    \cup {"auth/too-many-requests", "auth/network-request-failed"}

\* the codes createUserWithEmailAndPassword may reject these inputs with
SignUpRejections(email, password) ==
    (IF ~ValidEmail(email) THEN {"auth/invalid-email"}
     ELSE (IF email \in DOMAIN accounts THEN {"auth/email-already-in-use"} ELSE {})
          \cup (IF WeakPassword(password) THEN {"auth/weak-password"} ELSE {}))
    \cup {"auth/network-request-failed"}

SignInCall(email, password) ==
    [IdleCall EXCEPT !.op = "signIn", !.pc = "signInWithEmailAndPassword",
                     !.args = [email |-> email, password |-> password]]

SignUpCall(email, password, displayName) ==
    [IdleCall EXCEPT !.op = "signUp", !.pc = "createUserWithEmailAndPassword",
                     !.args = [email |-> email, password |-> password,
                               displayName |-> displayName]]

SignOutCall == [IdleCall EXCEPT !.op = "signOut", !.pc = "firebaseSignOut"]

\* authService.signIn called outside the Auth form
signIn(p, email, password) ==
    /\ CanStart(p)
    /\ calls' = [calls EXCEPT ![p] = SignInCall(email, password)]
    /\ hist' = Started(hist)
    /\ UNCHANGED <<store, mock, views>>

\* signIn's await: the vendor accepts or rejects the credentials
signInWithEmailAndPassword(p) ==
    LET c == calls[p]
        email == c.args.email
    IN
    /\ Resumed
    /\ c.op = "signIn" /\ c.pc = "signInWithEmailAndPassword"
    /\ \/ /\ SignInRejections(email, c.args.password)
                \subseteq {"auth/too-many-requests", "auth/network-request-failed"}
          /\ LET u == FirebaseUser(accounts[email].uid, email, accounts[email].displayName)
             IN /\ session' = [user |-> u, pending |-> TRUE]
                /\ calls' = [calls EXCEPT ![p] =
                       Returned(Logged(c, "signInWithEmailAndPassword", 0, TRUE),
                                convertFirebaseUser(u))]
       \/ \E e \in SignInRejections(email, c.args.password) :
             /\ calls' = [calls EXCEPT ![p] =
                    CaughtAuth(c, "signInWithEmailAndPassword", e, signInMessage(e))]
             /\ UNCHANGED session
    /\ UNCHANGED <<users, accounts, listings, gallery, conversations, messages,
                   blobs, usedIds, mock, hist, views>>

\* authService.signUp called outside the Auth form
signUp(p, email, password, displayName) ==
    /\ CanStart(p)
    /\ calls' = [calls EXCEPT ![p] = SignUpCall(email, password, displayName)]
    /\ hist' = Started(hist)
    /\ UNCHANGED <<store, mock, views>>

\* signUp's first await: the vendor creates the account and signs it in
createUserWithEmailAndPassword(p) ==
    LET c == calls[p]
        email == c.args.email
    IN
    /\ Resumed
    /\ c.op = "signUp" /\ c.pc = "createUserWithEmailAndPassword"
    /\ \/ /\ SignUpRejections(email, c.args.password) \subseteq {"auth/network-request-failed"}
          /\ LET u == FirebaseUser(UidOf(email), email, "")
             IN /\ accounts' = accounts @@ (email :> Account(u.uid, c.args.password, "", FALSE))
                /\ session' = [user |-> u, pending |-> TRUE]
                /\ calls' = [calls EXCEPT ![p] =
                       Logged([c EXCEPT !.pc = "updateProfile", !.res = u],
                              "createUserWithEmailAndPassword", 0, TRUE)]
       \/ \E e \in SignUpRejections(email, c.args.password) :
             /\ calls' = [calls EXCEPT ![p] =
                    CaughtAuth(c, "createUserWithEmailAndPassword", e, signUpMessage(e))]
             /\ UNCHANGED <<accounts, session>>
    /\ UNCHANGED <<users, listings, gallery, conversations, messages,
                   blobs, usedIds, mock, hist, views>>

\* signUp's second await: the display name is written to the vendor's account
\* and to the user object of the credential
updateProfile(p) ==
    LET c == calls[p] IN
    /\ Resumed
    /\ c.op = "signUp" /\ c.pc = "updateProfile"
    /\ \/ /\ accounts' = [accounts EXCEPT ![c.args.email].displayName = c.args.displayName]
          /\ session' = IF session.user.uid = c.res.uid
                        THEN [session EXCEPT !.user.displayName = c.args.displayName]
                        ELSE session
          /\ calls' = [calls EXCEPT ![p] =
                 Logged([c EXCEPT !.pc = "setDoc", !.res.displayName = c.args.displayName],
                        "updateProfile", 0, TRUE)]
       \/ /\ calls' = [calls EXCEPT ![p] =
                 CaughtAuth(c, "updateProfile", "auth/network-request-failed",
                            signUpMessage("auth/network-request-failed"))]
          /\ UNCHANGED <<accounts, session>>
    /\ UNCHANGED <<users, listings, gallery, conversations, messages,
                   blobs, usedIds, mock, hist, views>>

\* signUp's third await: the profile document, keyed by the uid
setDoc(p) ==
    LET c == calls[p] IN
    /\ Resumed
    /\ c.op = "signUp" /\ c.pc = "setDoc"
    /\ \/ /\ users' = [x \in DOMAIN users \cup {c.res.uid} |->
                         IF x = c.res.uid
                         THEN [email |-> c.args.email, displayName |-> c.args.displayName]
                         ELSE users[x]]
          /\ calls' = [calls EXCEPT ![p] =
                 Returned(Logged(c, "setDoc", 0, TRUE), convertFirebaseUser(c.res))]
       \/ \E e \in StoreErrors :
             /\ calls' = [calls EXCEPT ![p] = CaughtAuth(c, "setDoc", e, signUpMessage(e))]
             /\ UNCHANGED users
    /\ UNCHANGED <<vendorAuth, listings, gallery, conversations, messages,
                   blobs, usedIds, mock, hist, views>>

\* authService.signOut's await
firebaseSignOut(p) ==
    LET c == calls[p] IN
    /\ Resumed
    /\ c.op = "signOut" /\ c.pc = "firebaseSignOut"
    /\ \/ /\ session' = [user |-> NoFirebaseUser, pending |-> TRUE]
          /\ calls' = [calls EXCEPT ![p] = Returned(Logged(c, "firebaseSignOut", 0, TRUE), "void")]
       \/ /\ calls' = [calls EXCEPT ![p] =
                 Caught(c, "firebaseSignOut", 0, "auth/network-request-failed")]
          /\ UNCHANGED session
    /\ UNCHANGED <<users, accounts, listings, gallery, conversations, messages,
                   blobs, usedIds, mock, hist, views>>

(***************************************************************************)
(* App and the Auth form.                                                  *)
(***************************************************************************)
\* the sign-in screen is rendered
AuthShown(a) == ~a.loadingAuth /\ a.user = NoUser

\* the form's hooks after a change of app: a newly rendered form starts from
\* its initial values, a suspended handler stays suspended
Remount(f, a) ==
    IF AuthShown(a) /\ ~AuthShown(app) THEN [FormInit EXCEPT !.awaiting = f.awaiting] ELSE f

\* the listener App subscribes: setUser(...), setLoadingAuth(false)
onAuthStateChanged ==
    /\ session.pending
    /\ session' = [session EXCEPT !.pending = FALSE]
    /\ LET a == [user |-> IF session.user.uid # "" THEN convertFirebaseUser(session.user)
                          ELSE NoUser,
                 loadingAuth |-> FALSE, currentView |-> app.currentView]
       IN /\ app' = a
          /\ form' = Remount(form, a)
    /\ UNCHANGED <<users, accounts, listings, gallery, conversations, messages,
                   blobs, usedIds, calls, mock, hist, map, profile, board,
                   messagesView, newListingForm>>

\* the link under the form: setIsSignUp(!isSignUp), setError('')
toggleSignUp ==
    /\ Resumed
    /\ AuthShown(app)
    /\ form' = [form EXCEPT !.isSignUp = ~@, !.error = ""]
    /\ UNCHANGED <<store, calls, mock, hist, map, app, profile, board, messagesView, newListingForm>>

\* handleLogin up to its await
handleLogin(email, password) ==
    /\ Resumed
    /\ AuthShown(app) /\ ~form.isSignUp /\ ~form.isLoading /\ ~form.awaiting
    /\ CanStart(1)
    /\ form' = [form EXCEPT !.isLoading = TRUE, !.error = "", !.awaiting = TRUE]
    /\ calls' = [calls EXCEPT ![1] = SignInCall(email, password)]
    /\ hist' = [hist EXCEPT !.onLogin = FALSE]
    /\ UNCHANGED <<store, mock, map, app, profile, board, messagesView, newListingForm>>

\* handleSignUp up to its await
handleSignUp(email, password, displayName) ==
    /\ Resumed
    /\ AuthShown(app) /\ form.isSignUp /\ ~form.isLoading /\ ~form.awaiting
    /\ CanStart(1)
    /\ form' = [form EXCEPT !.isLoading = TRUE, !.error = "", !.awaiting = TRUE]
    /\ calls' = [calls EXCEPT ![1] = SignUpCall(email, password, displayName)]
    /\ hist' = [hist EXCEPT !.onLogin = FALSE]
    /\ UNCHANGED <<store, mock, map, app, profile, board, messagesView, newListingForm>>

\* the rest of handleLogin and handleSignUp: onLogin(user) or setError(message),
\* then setIsLoading(false); the setters of a form no longer rendered do nothing
handleSubmit_settled ==
    LET c == calls[1] IN
    /\ Delivered
    /\ form.awaiting /\ c.op \in {"signIn", "signUp"} /\ c.pc = "done"
    /\ IF c.out.kind = "returned"
       THEN /\ app' = [app EXCEPT !.user = c.out.value]
            /\ hist' = [hist EXCEPT !.onLogin = TRUE]
            /\ form' = [form EXCEPT !.awaiting = FALSE,
                                    !.isLoading = IF AuthShown(app) THEN FALSE ELSE @]
       ELSE /\ form' = [form EXCEPT !.awaiting = FALSE,
                                    !.isLoading = IF AuthShown(app) THEN FALSE ELSE @,
                                    !.error = IF AuthShown(app) THEN c.out.value ELSE @]
            /\ UNCHANGED <<app, hist, messagesView, newListingForm>>
    /\ UNCHANGED <<store, calls, mock, map, profile, board, messagesView, newListingForm>>

\* App.handleSignOut up to its await
handleSignOut ==
    /\ Resumed
    /\ ~app.loadingAuth /\ app.user # NoUser
    /\ CanStart(2)
    /\ calls' = [calls EXCEPT ![2] = SignOutCall]
    /\ UNCHANGED <<store, mock, hist, views>>

\* the rest of App.handleSignOut: setUser(null); a rejection is not caught
handleSignOut_settled ==
    LET c == calls[2]
        a == [app EXCEPT !.user = NoUser]
    IN
    /\ Delivered
    /\ c.op = "signOut" /\ c.pc = "done"
    /\ calls' = [calls EXCEPT ![2] = IdleCall]
    /\ IF c.out.kind = "returned"
       THEN app' = a /\ form' = Remount(form, a)
       ELSE UNCHANGED <<app, form, messagesView, newListingForm>>
    /\ UNCHANGED <<store, mock, hist, map, profile, board, messagesView, newListingForm>>

(***************************************************************************)
(* SpecAuth: the sign-in screen, the auth gateway and the App shell.       *)
(***************************************************************************)
DisplayNames == {"Dee"}

\* two registered accounts, one of them disabled in the vendor's console; the
\* vendor may hold a persisted session of the first
InitAuth ==
    /\ users = ("u1" :> UserDoc("u1")) @@ ("u3" :> UserDoc("u3"))
    /\ accounts = ("crafter@example.com" :> Account("u1", "secret1", "Alice", FALSE))
                  @@ ("weaver@example.com" :> Account("u3", "secret1", "Cy", TRUE))
    /\ session \in {[user |-> NoFirebaseUser, pending |-> TRUE],
                    [user |-> FirebaseUser("u1", "crafter@example.com", "Alice"),
                     pending |-> TRUE]}
    /\ listings = Empty /\ gallery = Empty /\ conversations = Empty /\ messages = Empty
    /\ objects = Empty /\ clock = 0 /\ usedIds = NoIds
    /\ calls = [p \in Procs |-> IdleCall]
    /\ InitViews
    /\ mock = MockInit
    /\ hist = NoHist

NextAuth ==
    \/ onAuthStateChanged
    \/ toggleSignUp
    \/ \E email \in Emails, password \in Passwords : handleLogin(email, password)
    \/ \E email \in Emails, password \in Passwords, displayName \in DisplayNames :
          handleSignUp(email, password, displayName)
    \/ signInWithEmailAndPassword(1)
    \/ createUserWithEmailAndPassword(1)
    \/ updateProfile(1)
    \/ setDoc(1)
    \/ handleSubmit_settled
    \/ handleSignOut
    \/ firebaseSignOut(2)
    \/ handleSignOut_settled

SpecAuth == InitAuth /\ [][NextAuth]_vars

\* C6: a signUp the vendor rejects because the email is registered throws
\* 'Email is already registered'; the handler of the Auth form then shows that
\* message, has not called onLogin, and leaves App and the vendor signed out
C6_AlreadyRegistered ==
    /\ [](\A p \in Procs :
            (calls[p].op = "signUp" /\ calls[p].err = "auth/email-already-in-use") =>
                /\ calls[p].args.email \in DOMAIN accounts
                /\ calls[p].out = [kind |-> "threw", value |-> "Email is already registered"])
    /\ [][(/\ calls[1].op = "signUp" /\ calls[1].err = "auth/email-already-in-use"
           /\ form.awaiting /\ ~form'.awaiting)
          => /\ form'.error = "Email is already registered"
             /\ ~form'.isLoading
             /\ ~hist'.onLogin
             /\ app'.user = NoUser
             /\ session'.user = NoFirebaseUser]_vars

\* the form shows the message of a rejected sign-up with a registered email
C6_Witness ==
    /\ calls[1].op = "signUp" /\ calls[1].err = "auth/email-already-in-use"
    /\ calls[1].args.email = "crafter@example.com"
    /\ ~form.awaiting /\ form.isSignUp
    /\ form.error = "Email is already registered"
    /\ app.user = NoUser

\* C7: a failed signIn returns no User and throws the message of its vendor
\* code: user-not-found and wrong-password 'Invalid email or password',
\* invalid-email 'Invalid email address', user-disabled 'This account has been
\* disabled', too-many-requests 'Too many failed login attempts. Please try
\* again later', any other code 'Failed to sign in. Please try again'
C7_SignInMessages ==
    \A p \in Procs :
        (calls[p].op = "signIn" /\ calls[p].pc = "done") =>
            LET code == calls[p].err
                out == calls[p].out
            IN
            /\ out.kind = "returned" <=> code = ""
            /\ code # "" => out.kind = "threw"
            /\ code \in {"auth/user-not-found", "auth/wrong-password"} =>
                  out.value = "Invalid email or password"
            /\ code = "auth/invalid-email" => out.value = "Invalid email address"
            /\ code = "auth/user-disabled" => out.value = "This account has been disabled"
            /\ code = "auth/too-many-requests" =>
                  out.value = "Too many failed login attempts. Please try again later"
            /\ code \notin {"", "auth/user-not-found", "auth/wrong-password",
                             "auth/invalid-email", "auth/user-disabled",
                             "auth/too-many-requests"} =>
                  out.value = "Failed to sign in. Please try again"

\* a sign-in with an unregistered email has been rejected as bad credentials
C7_Witness ==
    /\ calls[1].op = "signIn" /\ calls[1].pc = "done"
    /\ calls[1].err = "auth/user-not-found"
    /\ calls[1].args.email = "designer@example.com"
    /\ calls[1].out = [kind |-> "threw", value |-> "Invalid email or password"]

(***************************************************************************)
(* Object storage.                                                         *)
(***************************************************************************)
Files == {[name |-> "denim.png", content |-> "D"],
          [name |-> "denim.png", content |-> "E"]}

\* `listings/${timestamp}_${file.name}`
StorageKey(timestamp, file) == <<"listings", timestamp, file.name>>

\* uploadImage up to its first await: Date.now() names the object, uploadBytes
\* stores it; the clock may have advanced since it was last read
uploadImage_begin(p, file) ==
    /\ \E timestamp \in {clock, clock + 1} :
          /\ timestamp <= MaxClock
          /\ clock' = timestamp
          /\ LET c == [IdleCall EXCEPT !.op = "uploadImage", !.args = [file |-> file]]
                 key == StorageKey(timestamp, file)
             IN \/ /\ objects' = [k \in DOMAIN objects \cup {key} |->
                                    IF k = key THEN file.content ELSE objects[k]]
                   /\ calls' = [calls EXCEPT ![p] =
                          Logged([c EXCEPT !.pc = "getDownloadURL", !.res = key],
                                 "uploadBytes", 0, TRUE)]
                \/ \E e \in StoreErrors :
                      /\ calls' = [calls EXCEPT ![p] = Caught(c, "uploadBytes", 0, e)]
                      /\ UNCHANGED objects
    /\ UNCHANGED <<users, vendorAuth, listings, gallery, conversations, messages,
                   usedIds, mock>>

\* uploadImage called outside the views
uploadImage(p, file) ==
    /\ CanStart(p)
    /\ uploadImage_begin(p, file)
    /\ hist' = Started(hist)
    /\ UNCHANGED views

\* uploadImage after the upload: getDownloadURL(snapshot.ref)
uploadImage_getDownloadURL(p) ==
    LET c == calls[p] IN
    /\ c.op = "uploadImage" /\ c.pc = "getDownloadURL"
    /\ \/ calls' = [calls EXCEPT ![p] = Returned(Logged(c, "getDownloadURL", 0, TRUE), c.res)]
       \/ \E e \in StoreErrors :
             calls' = [calls EXCEPT ![p] = Caught(c, "getDownloadURL", 0, e)]
    /\ UNCHANGED <<store, mock, hist, views>>

(***************************************************************************)
(* Gallery and the listings of one user.                                   *)
(***************************************************************************)
GalleryPostOf(id, data, user) ==
    [id |-> id, userId |-> data.userId, originalListingId |-> data.originalListingId,
     user |-> user]

\* getGalleryPosts up to its first await: getDocs(collection(db, 'gallery'))
getGalleryPosts(p) ==
    /\ CanStart(p)
    /\ LET c == [IdleCall EXCEPT !.op = "getGalleryPosts"]
       IN \/ calls' = [calls EXCEPT ![p] =
                 Logged([c EXCEPT !.pc = "loop", !.snap = Docs(gallery, DOMAIN gallery),
                                  !.i = 1, !.res = <<>>], "getDocs", 0, TRUE)]
          \/ \E e \in StoreErrors : calls' = [calls EXCEPT ![p] = Caught(c, "getDocs", 0, e)]
    /\ hist' = Started(hist)
    /\ UNCHANGED <<store, mock, views>>

\* one turn of the for loop: the user lookup when the post has a userId
\* (failure only warned about) and the push
getGalleryPosts_loop(p) ==
    LET c == calls[p] IN
    /\ c.op = "getGalleryPosts" /\ c.pc = "loop" /\ c.i <= Len(c.snap)
    /\ LET d == c.snap[c.i] IN
       IF d.data.userId # ""
       THEN \/ calls' = [calls EXCEPT ![p] =
                   Logged([c EXCEPT !.i = @ + 1,
                                    !.res = Append(@, GalleryPostOf(d.id, d.data, UserOf(d.data.userId)))],
                          "getDoc", c.i, TRUE)]
            \/ calls' = [calls EXCEPT ![p] =
                   Logged([c EXCEPT !.i = @ + 1,
                                    !.res = Append(@, GalleryPostOf(d.id, d.data, NoUser))],
                          "getDoc", c.i, FALSE)]
       ELSE calls' = [calls EXCEPT ![p] =
                [c EXCEPT !.i = @ + 1, !.res = Append(@, GalleryPostOf(d.id, d.data, NoUser))]]
    /\ UNCHANGED <<store, mock, hist, views>>

\* the loop is over: return posts
getGalleryPosts_return(p) ==
    LET c == calls[p] IN
    /\ c.op = "getGalleryPosts" /\ c.pc = "loop" /\ c.i > Len(c.snap)
    /\ calls' = [calls EXCEPT ![p] = Returned(c, c.res)]
    /\ UNCHANGED <<store, mock, hist, views>>

\* a query without its where clause
OwnListings_all(coll, userId) == DOMAIN coll

\* query(collection(db, 'listings'), where('userId', '==', userId))
OwnListings(coll, userId) == {id \in DOMAIN coll : coll[id].userId = userId}

\* getListingsForUser up to its first await: getDocs(q)
getListingsForUser_call(p, userId) ==
    /\ CanStart(p)
    /\ LET c == [IdleCall EXCEPT !.op = "getListingsForUser", !.args = [userId |-> userId]]
       IN \/ /\ calls' = [calls EXCEPT ![p] =
                    Logged([c EXCEPT !.pc = "loop",
                                     !.snap = Docs(listings, OwnListings(listings, userId)),
                                     !.i = 1, !.res = <<>>], "getDocs", 0, TRUE)]
             /\ hist' = [Started(hist) EXCEPT !.atQuery[p] =
                             {id \in DOMAIN listings : listings[id].userId = userId}]
          \/ \E e \in StoreErrors :
                /\ calls' = [calls EXCEPT ![p] = Caught(c, "getDocs", 0, e)]
                /\ hist' = [Started(hist) EXCEPT !.atQuery[p] = {}]
    /\ UNCHANGED <<store, mock>>

\* getListingsForUser called outside the views
getListingsForUser(p, userId) ==
    /\ getListingsForUser_call(p, userId)
    /\ UNCHANGED views

\* one turn of the for loop: the user lookup (failure only warned about) and
\* the push
getListingsForUser_loop(p) ==
    LET c == calls[p] IN
    /\ c.op = "getListingsForUser" /\ c.pc = "loop" /\ c.i <= Len(c.snap)
    /\ LET d == c.snap[c.i] IN
       \/ calls' = [calls EXCEPT ![p] =
              Logged([c EXCEPT !.i = @ + 1,
                               !.res = Append(@, ListingOf(d.id, d.data, UserOf(d.data.userId)))],
                     "getDoc", c.i, TRUE)]
       \/ calls' = [calls EXCEPT ![p] =
              Logged([c EXCEPT !.i = @ + 1,
                               !.res = Append(@, ListingOf(d.id, d.data, NoUser))],
                     "getDoc", c.i, FALSE)]
    /\ UNCHANGED <<store, mock, hist, views>>

\* the loop is over: return listings
getListingsForUser_return(p) ==
    LET c == calls[p] IN
    /\ c.op = "getListingsForUser" /\ c.pc = "loop" /\ c.i > Len(c.snap)
    /\ calls' = [calls EXCEPT ![p] = Returned(c, c.res)]
    /\ UNCHANGED <<store, mock, hist, views>>

(***************************************************************************)
(* Messages.                                                               *)
(***************************************************************************)
Texts == {"hi"}

\* the number of message documents in all sub-collections
RECURSIVE MessageCount(_)
MessageCount(m) ==
    IF DOMAIN m = {} THEN 0
    ELSE LET id == CHOOSE x \in DOMAIN m : TRUE
         IN Len(m[id]) + MessageCount(Remove(m, id))

\* sendMessage up to its first await:
\* addDoc(collection(db, 'conversations', conversationId, 'messages'), ...);
\* the store takes documents of a sub-collection whose parent does not exist
sendMessage_begin(p, conversationId, senderId, text) ==
    /\ MessageCount(messages) < MaxMessages
    /\ LET c == [IdleCall EXCEPT !.op = "sendMessage",
                                 !.args = [conversationId |-> conversationId,
                                           senderId |-> senderId, text |-> text]]
           message == [senderId |-> senderId, text |-> text]
       IN \/ /\ messages' = [k \in DOMAIN messages \cup {conversationId} |->
                               IF k \in DOMAIN messages
                               THEN (IF k = conversationId THEN Append(messages[k], message)
                                     ELSE messages[k])
                               ELSE <<message>>]
             /\ calls' = [calls EXCEPT ![p] =
                    Logged([c EXCEPT !.pc = "updateDoc"], "addDoc", 0, TRUE)]
          \/ \E e \in StoreErrors :
                /\ calls' = [calls EXCEPT ![p] = Caught(c, "addDoc", 0, e)]
                /\ UNCHANGED messages
    /\ UNCHANGED <<users, vendorAuth, listings, gallery, conversations, blobs,
                   usedIds, mock>>

\* sendMessage called outside the views
sendMessage(p, conversationId, senderId, text) ==
    /\ CanStart(p)
    /\ sendMessage_begin(p, conversationId, senderId, text)
    /\ hist' = Started(hist)
    /\ UNCHANGED views

\* sendMessage after the message is stored:
\* updateDoc(doc(db, 'conversations', conversationId), {lastMessageText: text, ...});
\* the store rejects the update of a document that does not exist
sendMessage_updateDoc(p) ==
    LET c == calls[p]
        conversationId == c.args.conversationId
    IN
    /\ c.op = "sendMessage" /\ c.pc = "updateDoc"
    /\ \/ /\ conversationId \in DOMAIN conversations
          /\ conversations' = [conversations EXCEPT
                                  ![conversationId].lastMessageText = c.args.text]
          /\ calls' = [calls EXCEPT ![p] = Returned(Logged(c, "updateDoc", 0, TRUE), "void")]
       \/ \E e \in StoreErrors \cup {"not-found"} :
             /\ e = "not-found" <=> conversationId \notin DOMAIN conversations
             /\ calls' = [calls EXCEPT ![p] = Caught(c, "updateDoc", 0, e)]
             /\ UNCHANGED conversations
    /\ UNCHANGED <<users, vendorAuth, listings, gallery, messages, blobs,
                   usedIds, mock, hist, views>>

\* authService.signOut called outside App
signOut(p) ==
    /\ CanStart(p)
    /\ calls' = [calls EXCEPT ![p] = SignOutCall]
    /\ hist' = Started(hist)
    /\ UNCHANGED <<store, mock, views>>

(***************************************************************************)
(* Spec: the operations of the service against one backend, one call at a  *)
(* time.                                                                   *)
(***************************************************************************)
GalleryData(uid, listingId) == [userId |-> uid, originalListingId |-> listingId]

NewListing == ListingData("u1", OFFER, "free", "denim", London)
ListingEdit == [category |-> "yarn"]

\* the backend of InitBackend with two gallery posts, one of them without a
\* userId, and the listener already notified of the signed-out session
InitAll ==
    /\ users = ("u1" :> UserDoc("u1"))
    /\ accounts = ("crafter@example.com" :> Account("u1", "secret1", "Alice", FALSE))
    /\ session = [user |-> NoFirebaseUser, pending |-> FALSE]
    /\ listings = Empty /\ conversations = Empty /\ messages = Empty
    /\ gallery = (1 :> GalleryData("u1", "")) @@ (2 :> GalleryData("", ""))
    /\ objects = Empty /\ clock = 0 /\ usedIds = NoIds
    /\ calls = [p \in Procs |-> IdleCall]
    /\ map = MapInit
    /\ app = [user |-> NoUser, loadingAuth |-> FALSE, currentView |-> "map"]
    /\ form = FormInit
    /\ profile = ProfileInit
    /\ board = BoardInit
    /\ messagesView = MessagesViewInit /\ newListingForm = NewListingFormInit
    /\ mock = MockInit
    /\ hist = [NoHist EXCEPT !.capped = TRUE]

Next ==
    \/ onAuthStateChanged
    \/ \E password \in Passwords : signIn(1, "crafter@example.com", password)
    \/ signInWithEmailAndPassword(1)
    \/ signOut(1)
    \/ firebaseSignOut(1)
    \/ \E displayName \in DisplayNames \cup {""} :
          signUp(1, "designer@example.com", "secret1", displayName)
    \/ createUserWithEmailAndPassword(1)
    \/ updateProfile(1)
    \/ setDoc(1)
    \/ \E file \in Files : uploadImage(1, file)
    \/ uploadImage_getDownloadURL(1)
    \/ createListing(1, NewListing)
    \/ createListing_getDoc(1)
    \/ getNearbyListings(1, London, 15)
    \/ getNearbyListings_loop(1)
    \/ getNearbyListings_return(1)
    \/ getGalleryPosts(1)
    \/ getGalleryPosts_loop(1)
    \/ getGalleryPosts_return(1)
    \/ getListingsForUser(1, "u1")
    \/ getListingsForUser_loop(1)
    \/ getListingsForUser_return(1)
    \/ \E listingId \in ListingIds : deleteListing(1, listingId)
    \/ \E listingId \in ListingIds : updateListing(1, listingId, ListingEdit)
    \/ getOrCreateConversation(1, "u1", "u2")
    \/ getOrCreateConversation_scan(1)
    \/ \E text \in Texts : sendMessage(1, 1, "u1", text)
    \/ sendMessage_updateDoc(1)

Spec == InitAll /\ [][Next]_vars

\* the nine operations of the document store and the object storage
StoreOps ==
    {"uploadImage", "createListing", "getNearbyListings", "getGalleryPosts",
     "getListingsForUser", "deleteListing", "updateListing",
     "getOrCreateConversation", "sendMessage"}

\* the vendor calls of a call's log that failed
FailedAt(c) == {k \in DOMAIN c.log : ~c.log[k][3]}

\* the message the source gives each of the nine operations
OwnMessage ==
    [op \in StoreOps |->
        CASE op = "uploadImage" -> "Failed to upload image. Please try again."
          [] op = "createListing" -> "Failed to create listing. Please try again."
          [] op = "getNearbyListings" -> "Failed to fetch listings. Please try again."
          [] op = "getGalleryPosts" -> "Failed to fetch gallery posts. Please try again."
          [] op = "getListingsForUser" -> "Failed to fetch your listings. Please try again."
          [] op = "deleteListing" -> "Failed to delete listing. Please try again."
          [] op = "updateListing" -> "Failed to update listing. Please try again."
          [] op = "getOrCreateConversation" ->
                "Failed to start conversation. Please try again."
          [] op = "sendMessage" -> "Failed to send message. Please try again."]

\* C8 as stated: in the nine operations the failure of any vendor call ends
\* the operation with its own fixed message thrown
C8_EveryFailureThrows ==
    \A p \in Procs :
        LET c == calls[p] IN
        (c.op \in StoreOps /\ FailedAt(c) # {}) =>
            /\ c.pc = "done"
            /\ c.out = [kind |-> "threw", value |-> OwnMessage[c.op]]

\* C8: in the nine operations the failure of a vendor call other than the
\* lookup of the denormalized user ends the operation at once with its own
\* fixed message thrown, never the vendor's error; a failed user lookup is
\* passed over, the operation goes on and the item has no user; an operation
\* throws for no other reason, and no vendor call is issued twice
C8_FailuresRethrown ==
    \A p \in Procs :
        LET c == calls[p] IN
        c.op \in StoreOps =>
            /\ \A k \in FailedAt(c) :
                  IF c.log[k][1] = "getDoc"
                  THEN /\ c.out.kind # "threw" \/ k < Len(c.log)
                       /\ (c.op = "createListing" /\ c.pc = "done") =>
                             c.out.kind = "returned" /\ c.out.value.user = NoUser
                       /\ (c.op \in {"getGalleryPosts", "getListingsForUser"}
                           /\ c.out.kind = "returned") =>
                             c.out.value[c.log[k][2]].user = NoUser
                  ELSE /\ k = Len(c.log)
                       /\ c.pc = "done"
                       /\ c.err # ""
                       /\ c.out = [kind |-> "threw", value |-> OwnMessage[c.op]]
                       /\ c.out.value # c.err
            /\ c.out.kind = "threw" =>
                  /\ FailedAt(c) # {}
                  /\ c.log[Len(c.log)][1] # "getDoc" /\ ~c.log[Len(c.log)][3]
            /\ \A j \in DOMAIN c.log, k \in DOMAIN c.log :
                  (j # k) => <<c.log[j][1], c.log[j][2]>> # <<c.log[k][1], c.log[k][2]>>

\* sendMessage stored the message, the update of the conversation failed, and
\* the caller got sendMessage's own message
C8_Witness ==
    /\ calls[1].op = "sendMessage" /\ calls[1].pc = "done"
    /\ calls[1].log = <<<<"addDoc", 0, TRUE>>, <<"updateDoc", 0, FALSE>>>>
    /\ calls[1].err = "not-found"
    /\ calls[1].out = [kind |-> "threw",
                       value |-> "Failed to send message. Please try again."]

\* a sequence that starts with another
IsPrefix(s, t) == Len(s) <= Len(t) /\ \A k \in 1..Len(s) : s[k] = t[k]

\* p completes a deleteListing(listingId) successfully in this step
Deletes(p, listingId) ==
    /\ calls'[p] # calls[p]
    /\ calls'[p].op = "deleteListing" /\ calls'[p].args.listingId = listingId
    /\ calls'[p].out.kind = "returned"

\* C9: no step removes a user, gallery post, conversation or message; a
\* listing leaves the store only in a step that completes deleteListing(id),
\* and that step removes the listing id and nothing else
C9_OnlyDeleteListingDeletes ==
    [][/\ DOMAIN users \subseteq DOMAIN users'
       /\ DOMAIN gallery \subseteq DOMAIN gallery'
       /\ DOMAIN conversations \subseteq DOMAIN conversations'
       /\ \A id \in DOMAIN messages :
             id \in DOMAIN messages' /\ IsPrefix(messages[id], messages'[id])
       /\ \A id \in DOMAIN listings \ DOMAIN listings' :
             \E p \in Procs : Deletes(p, id)
       /\ \A p \in Procs, id \in ListingIds :
             Deletes(p, id) =>
                /\ listings' = [x \in DOMAIN listings \ {id} |-> listings[x]]
                /\ UNCHANGED <<users, gallery, conversations, messages>>]_vars

\* one of two listings has been deleted, the other is still stored
C9_Witness ==
    /\ calls[1].op = "deleteListing" /\ calls[1].out.kind = "returned"
    /\ calls[1].args.listingId \in usedIds.listings \ DOMAIN listings
    /\ DOMAIN listings # {}

\* C11: once signUp has returned, the users collection holds a document keyed
\* by the new account's uid with the email and displayName passed in, and the
\* User returned carries that uid, email and displayName
C11_SignUpStoresProfile ==
    \A p \in Procs :
        (calls[p].op = "signUp" /\ calls[p].out.kind = "returned") =>
            LET a == calls[p].args
                user == calls[p].out.value
            IN
            /\ a.email \in DOMAIN accounts /\ accounts[a.email].uid = user.id
            /\ user.id \in DOMAIN users
            /\ users[user.id] = [email |-> a.email, displayName |-> a.displayName]
            /\ user.email = a.email
            /\ user.displayName = a.displayName

(***************************************************************************)
(* Profile: the listings of the signed-in user.                            *)
(***************************************************************************)
\* Profile is rendered and its effect runs fetchUserListings up to the await:
\* setIsLoading(true), setError(null), getListingsForUser(user.id)
fetchUserListings(p) ==
    /\ ~app.loadingAuth /\ app.user # NoUser
    /\ ~profile.mounted
    /\ profile' = [ProfileInit EXCEPT !.mounted = TRUE, !.awaiting = TRUE, !.proc = p]
    /\ getListingsForUser_call(p, app.user.id)
    /\ UNCHANGED <<map, app, form, board, messagesView, newListingForm>>

\* the rest of fetchUserListings: setListings(userListings) or
\* setError(err.message), then setIsLoading(false)
fetchUserListings_settled ==
    LET c == calls[profile.proc] IN
    /\ profile.mounted /\ profile.awaiting
    /\ c.op = "getListingsForUser" /\ c.pc = "done"
    /\ profile' = IF c.out.kind = "returned"
                  THEN [profile EXCEPT !.awaiting = FALSE, !.isLoading = FALSE,
                                       !.listings = c.out.value]
                  ELSE [profile EXCEPT !.awaiting = FALSE, !.isLoading = FALSE,
                                       !.error = c.out.value]
    /\ UNCHANGED <<store, calls, mock, hist, map, app, form, board, messagesView, newListingForm>>

\* the user leaves the profile view: its state is gone, the setters of the
\* suspended handler do nothing
Profile_unmount ==
    /\ profile.mounted
    /\ profile' = ProfileInit
    /\ UNCHANGED <<store, calls, mock, hist, map, app, form, board, messagesView, newListingForm>>

ProfileListings ==
    {ListingData("u1", OFFER, "free", "denim", London),
     ListingData("u2", REQUEST, "swap", "silk", Regents)}

\* two registered users, either of them signed in
InitProfile ==
    /\ users = ("u1" :> UserDoc("u1")) @@ ("u2" :> UserDoc("u2"))
    /\ accounts = ("crafter@example.com" :> Account("u1", "secret1", "Alice", FALSE))
                  @@ ("designer@example.com" :> Account("u2", "secret1", "Bob", FALSE))
    /\ \E uid \in {"u1", "u2"} :
          /\ session = [user |-> FirebaseUser(uid, UserDoc(uid).email, UserDoc(uid).displayName),
                        pending |-> FALSE]
          /\ app = [user |-> UserOf(uid), loadingAuth |-> FALSE, currentView |-> "map"]
    /\ listings = Empty /\ gallery = Empty /\ conversations = Empty /\ messages = Empty
    /\ objects = Empty /\ clock = 0 /\ usedIds = NoIds
    /\ calls = [p \in Procs |-> IdleCall]
    /\ map = MapInit /\ form = FormInit /\ profile = ProfileInit /\ board = BoardInit
    /\ messagesView = MessagesViewInit /\ newListingForm = NewListingFormInit
    /\ mock = MockInit
    /\ hist = NoHist

NextProfile ==
    \/ \E p \in Procs : fetchUserListings(p)
    \/ \E p \in Procs : getListingsForUser_loop(p)
    \/ \E p \in Procs : getListingsForUser_return(p)
    \/ fetchUserListings_settled
    \/ Profile_unmount
    \/ \E listingData \in ProfileListings : createListing(2, listingData)
    \/ createListing_getDoc(2)
    \/ \E listingId \in ListingIds : deleteListing(2, listingId)

SpecProfile == InitProfile /\ [][NextProfile]_vars

\* the ids of a list of listings, as a set
IdsOf(list) == {list[k].id : k \in DOMAIN list}

\* C12: getListingsForUser(userId) returns, once each, exactly the listings
\* that were stored with that userId when its query ran; what the profile view
\* shows is the list returned for the id of the signed-in user, so every
\* listing shown is one of that user's
C12_OwnListings ==
    /\ [](\A p \in Procs :
            (calls[p].op = "getListingsForUser" /\ calls[p].out.kind = "returned") =>
                LET res == calls[p].out.value IN
                /\ IdsOf(res) = hist.atQuery[p]
                /\ Len(res) = Cardinality(hist.atQuery[p])
                /\ \A k \in DOMAIN res : res[k].userId = calls[p].args.userId)
    /\ [](\A k \in DOMAIN profile.listings :
            profile.listings[k].userId = app.user.id)
    /\ [][(profile.awaiting /\ ~profile'.awaiting /\ profile'.mounted
           /\ profile'.error = "")
          => /\ calls[profile.proc].args.userId = app.user.id
             /\ profile'.listings = calls[profile.proc].out.value
             /\ ~profile'.isLoading]_vars

\* the profile of the first user shows that user's listing while the store
\* also holds a listing of the second user
C12_Witness ==
    /\ profile.mounted /\ ~profile.isLoading /\ profile.error = ""
    /\ app.user.id = "u1"
    /\ Len(profile.listings) = 1
    /\ \E id \in DOMAIN listings : listings[id].userId = "u2"
    /\ \E id \in DOMAIN listings : listings[id].userId = "u1"

(***************************************************************************)
(* SpecUpload: two clients uploading images.                               *)
(***************************************************************************)
NextUpload ==
    \/ \E p \in Procs, file \in Files : uploadImage(p, file)
    \/ \E p \in Procs : uploadImage_getDownloadURL(p)

SpecUpload == InitOneUser /\ [][NextUpload]_vars

\* C13: uploadImage stores the file under listings/<timestamp>_<file name>
\* and returns that object's URL, and no upload writes to a key that already
\* holds an object: what was stored stays as it was
C13_UniqueKeys ==
    /\ [](\A p \in Procs :
            (calls[p].op = "uploadImage" /\ calls[p].out.kind = "returned") =>
                /\ calls[p].out.value \in DOMAIN objects
                /\ calls[p].out.value[1] = "listings"
                /\ calls[p].out.value[3] = calls[p].args.file.name)
    /\ [][\A key \in DOMAIN objects :
             key \in DOMAIN objects' /\ objects'[key] = objects[key]]_vars

(***************************************************************************)
(* Geocoding.  Query strings are sequences of characters, so that          *)
(* toLowerCase and includes are computed, character by character.          *)
(***************************************************************************)
UpperCase == <<"A", "B", "C", "D", "E", "F", "G", "H", "I", "J", "K", "L", "M",
               "N", "O", "P", "Q", "R", "S", "T", "U", "V", "W", "X", "Y", "Z">>
LowerCase == <<"a", "b", "c", "d", "e", "f", "g", "h", "i", "j", "k", "l", "m",
               "n", "o", "p", "q", "r", "s", "t", "u", "v", "w", "x", "y", "z">>

\* String.prototype.toLowerCase
toLowerCase(s) ==
    [k \in 1..Len(s) |->
        IF \E n \in 1..26 : UpperCase[n] = s[k]
        THEN LowerCase[CHOOSE n \in 1..26 : UpperCase[n] = s[k]]
        ELSE s[k]]

\* String.prototype.includes
includes(s, t) == \E k \in 0..(Len(s) - Len(t)) : SubSeq(s, k + 1, k + Len(t)) = t

london == <<"l", "o", "n", "d", "o", "n">>
manchester == <<"m", "a", "n", "c", "h", "e", "s", "t", "e", "r">>
birmingham == <<"b", "i", "r", "m", "i", "n", "g", "h", "a", "m">>

\* the two tests on the query as typed, without toLowerCase
MockLocation_caseSensitive(postcode) ==
    IF includes(postcode, london) THEN London
    ELSE IF includes(postcode, manchester) THEN Manchester
    ELSE Birmingham

\* the mock geocoder's answer, as its two tests and its default give it
MockLocation(postcode) ==
    IF includes(toLowerCase(postcode), london) THEN London
    ELSE IF includes(toLowerCase(postcode), manchester) THEN Manchester
    ELSE Birmingham

\* the queries typed into a search box
Queries ==
    { <<"L", "o", "n", "d", "o", "n">>,
      <<"L", "O", "N", "D", "O", "N", " ", "E", "1">>,
      <<"e", "a", "s", "t", " ">> \o london,
      <<"M", "a", "n", "c", "h", "e", "s", "t", "e", "r">>,
      manchester \o <<" ", "r", "o", "a", "d", ",", " ">> \o london,
      <<"B", "i", "r", "m", "i", "n", "g", "h", "a", "m">>,
      birmingham \o <<",", " ">> \o manchester,
      <<"L", "o", "n", "d">>,
      <<"L", "e", "e", "d", "s">>,
      <<>> }

\* the mock geocode up to its await of the simulated network delay
geocode_mock(p, postcode) ==
    /\ CanStart(p)
    /\ calls' = [calls EXCEPT ![p] =
          [IdleCall EXCEPT !.op = "geocode_mock", !.pc = "setTimeout",
                           !.args = [postcode |-> postcode]]]
    /\ hist' = Started(hist)
    /\ UNCHANGED <<store, mock, views>>

\* the delay is over: the two substring tests, or the default
geocode_mock_resolve(p) ==
    LET c == calls[p] IN
    /\ c.op = "geocode_mock" /\ c.pc = "setTimeout"
    /\ calls' = [calls EXCEPT ![p] = Returned(c, MockLocation(c.args.postcode))]
    /\ UNCHANGED <<store, mock, hist, views>>

\* decimal digits and the value of a string of them
Digits == <<"0", "1", "2", "3", "4", "5", "6", "7", "8", "9">>
DigitValue(ch) == (CHOOSE n \in 1..10 : Digits[n] = ch) - 1

RECURSIVE DigitsValue(_)
DigitsValue(s) ==
    IF s = <<>> THEN 0
    ELSE 10 * DigitsValue(SubSeq(s, 1, Len(s) - 1)) + DigitValue(s[Len(s)])

\* parseFloat of a decimal string "[-]ddd.dd", in hundredths
parseFloat(s) ==
    LET neg == s # <<>> /\ s[1] = "-"
        body == IF neg THEN Tail(s) ELSE s
        dot == IF \E k \in 1..Len(body) : body[k] = "."
               THEN CHOOSE k \in 1..Len(body) : body[k] = "."
               ELSE Len(body) + 1
        whole == SubSeq(body, 1, dot - 1)
        frac == SubSeq(body \o <<"0", "0", "0">>, dot + 1, dot + 2)
        v == 100 * DigitsValue(whole) + DigitsValue(frac)
    IN IF neg THEN -v ELSE v

\* a place of a Nominatim answer: lat and lon are strings
Place(lat, lon) == [lat |-> lat, lon |-> lon]
PlaceLondon == Place(<<"5", "1", ".", "5", "1">>, <<"-", "0", ".", "1", "3">>)
PlaceManchester == Place(<<"5", "3", ".", "4", "8">>, <<"-", "2", ".", "2", "4">>)
PlaceOrigin == Place(<<"0">>, <<"0", ".", "0">>)

\* the JSON bodies the service answers with (limit=1: at most one place;
\* a proxy may pass on more)
Bodies == { <<>>, <<PlaceLondon>>, <<PlaceManchester>>, <<PlaceOrigin>>,
            <<PlaceManchester, PlaceLondon>> }

HttpErrors == {"TypeError: Failed to fetch"}
JsonErrors == {"SyntaxError: Unexpected token"}

\* the first result's coordinates, read as latitude and longitude
FirstResult_reversed(data) == GeoPoint(parseFloat(data[1].lon), parseFloat(data[1].lat))

\* const result = data[0]; parseFloat(result.lat), parseFloat(result.lon)
FirstResult(data) == GeoPoint(parseFloat(data[1].lat), parseFloat(data[1].lon))

\* the throw of geocode's catch block, whatever was caught
GeocodeFailed(c, api, e) ==
    [c EXCEPT !.pc = "done", !.err = e, !.snap = <<>>,
              !.out = [kind |-> "threw",
                       value |-> "Failed to geocode location. Please try a different search term."],
              !.log = Append(@, <<api, 0, FALSE>>)]

\* geocode up to its await of fetch
geocode_begin(p, query) ==
    calls' = [calls EXCEPT ![p] =
        [IdleCall EXCEPT !.op = "geocode", !.pc = "fetch", !.args = [query |-> query]]]

\* geocode called outside the views
geocode(p, query) ==
    /\ CanStart(p)
    /\ geocode_begin(p, query)
    /\ hist' = Started(hist)
    /\ UNCHANGED <<store, mock, views>>

\* fetch settles: a response that is ok or not, or a network failure
geocode_fetch(p) ==
    LET c == calls[p] IN
    /\ c.op = "geocode" /\ c.pc = "fetch"
    /\ \/ calls' = [calls EXCEPT ![p] = Logged([c EXCEPT !.pc = "json"], "fetch", 0, TRUE)]
       \/ calls' = [calls EXCEPT ![p] =
             GeocodeFailed(Logged(c, "fetch", 0, TRUE), "response.ok", "Geocoding request failed")]
       \/ \E e \in HttpErrors : calls' = [calls EXCEPT ![p] = GeocodeFailed(c, "fetch", e)]
    /\ UNCHANGED <<store, mock, hist, views>>

\* response.json() settles: the length test and the first result
geocode_json(p) ==
    LET c == calls[p] IN
    /\ c.op = "geocode" /\ c.pc = "json"
    /\ \/ \E data \in Bodies :
            calls' = [calls EXCEPT ![p] =
               IF Len(data) = 0
               THEN GeocodeFailed([c EXCEPT !.snap = data], "data.length", "Location not found")
               ELSE [Returned(c, FirstResult(data)) EXCEPT !.snap = data,
                        !.log = Append(@, <<"json", 0, TRUE>>)]]
       \/ \E e \in JsonErrors : calls' = [calls EXCEPT ![p] = GeocodeFailed(c, "json", e)]
    /\ UNCHANGED <<store, mock, hist, views>>

(***************************************************************************)
(* SpecGeocode: two clients geocoding, with either implementation.         *)
(***************************************************************************)
LiveQueries == { <<"L", "o", "n", "d", "o", "n">>, <<"L", "e", "e", "d", "s">> }

NextGeocode ==
    \E p \in Procs :
       \/ \E q \in Queries : geocode_mock(p, q)
       \/ geocode_mock_resolve(p)
       \/ \E q \in LiveQueries : geocode(p, q)
       \/ geocode_fetch(p)
       \/ geocode_json(p)

SpecGeocode == InitOneUser /\ [][NextGeocode]_vars

\* the three hard-coded cities: name and coordinates
Cities == { [name |-> london, point |-> London],
            [name |-> manchester, point |-> Manchester],
            [name |-> birmingham, point |-> Birmingham] }

\* C14 (as claimed): the mock geocoder never fails and, for each of the three
\* cities, returns that city's coordinates whenever the query contains the
\* city's name in any letter case.
C14_EachCityByName ==
    \A p \in Procs :
        (calls[p].op = "geocode_mock" /\ calls[p].pc = "done") =>
            /\ calls[p].out.kind = "returned"
            /\ \A city \in Cities :
                  includes(toLowerCase(calls[p].args.postcode), city.name)
                     => calls[p].out.value = city.point

\* C14 (amended): the mock geocoder never fails; it returns London when the
\* query contains "london" in any letter case, otherwise Manchester when the
\* query contains "manchester", and Birmingham for every other query, whether
\* or not that query names Birmingham.
C14_FirstMatchElseDefault ==
    \A p \in Procs :
        (calls[p].op = "geocode_mock" /\ calls[p].pc = "done") =>
            LET q == toLowerCase(calls[p].args.postcode) IN
            /\ calls[p].out.kind = "returned"
            /\ includes(q, london) => calls[p].out.value = London
            /\ (~includes(q, london) /\ includes(q, manchester))
                  => calls[p].out.value = Manchester
            /\ (~includes(q, london) /\ ~includes(q, manchester))
                  => calls[p].out.value = Birmingham

\* an upper-case London query answered with London beside a query naming no
\* city answered with Birmingham
C14_Witness ==
    /\ calls[1].op = "geocode_mock" /\ calls[1].pc = "done"
    /\ calls[1].args.postcode = <<"L", "O", "N", "D", "O", "N", " ", "E", "1">>
    /\ calls[1].out.value = London
    /\ calls[2].op = "geocode_mock" /\ calls[2].pc = "done"
    /\ calls[2].args.postcode = <<"L", "e", "e", "d", "s">>
    /\ calls[2].out.value = Birmingham

\* C15: the live geocoder returns the latitude and longitude of the first
\* result of the answer; when the response is not ok or the result list is
\* empty it returns no point and throws 'Failed to geocode location. Please
\* try a different search term.'.
C15_FirstResultOrThrow ==
    \A p \in Procs :
        LET c == calls[p] IN
        (c.op = "geocode" /\ c.pc = "done") =>
            /\ c.out.kind = "returned" =>
                  /\ Len(c.snap) > 0
                  /\ c.out.value.latitude = parseFloat(c.snap[1].lat)
                  /\ c.out.value.longitude = parseFloat(c.snap[1].lon)
            /\ (c.err \in {"Geocoding request failed", "Location not found"}) =>
                  c.out = [kind |-> "threw",
                           value |-> "Failed to geocode location. Please try a different search term."]
            /\ c.out.kind \in {"returned", "threw"}
            /\ (c.out.kind = "returned") <=> (c.err = "")

\* one lookup answered with two places returned the first, another was
\* answered with an empty list and threw
C15_Witness ==
    /\ calls[1].op = "geocode" /\ calls[1].pc = "done"
    /\ calls[1].snap = <<PlaceManchester, PlaceLondon>>
    /\ calls[1].out = [kind |-> "returned", value |-> Manchester]
    /\ calls[2].op = "geocode" /\ calls[2].pc = "done"
    /\ calls[2].err = "Location not found" /\ calls[2].out.kind = "threw"

(***************************************************************************)
(* The ISO board.                                                          *)
(***************************************************************************)
\* the effect of IsoBoard on mount, up to fetchRequests' await: the search
\* around (0, 0) with a radius of 20000 km
fetchRequests(p) ==
    /\ ~board.mounted
    /\ board' = [BoardInit EXCEPT !.mounted = TRUE, !.awaiting = TRUE, !.proc = p]
    /\ getNearbyListings_call(p, Origin, 20000)
    /\ hist' = [Started(hist) EXCEPT !.atQuery[p] =
                    {id \in DOMAIN listings : listings[id].postType = REQUEST}]
    /\ UNCHANGED <<map, app, form, profile, messagesView, newListingForm>>

\* allListings.filter(l => l.postType === 'request')
isoRequests(allListings) == SelectSeq(allListings, LAMBDA l : l.postType = REQUEST)

\* the rest of fetchRequests: setRequests(isoRequests) or setError, then
\* setIsLoading(false)
fetchRequests_settled ==
    LET c == calls[board.proc] IN
    /\ board.mounted /\ board.awaiting
    /\ c.op = "getNearbyListings" /\ c.pc = "done"
    /\ board' = IF c.out.kind = "returned"
                THEN [board EXCEPT !.awaiting = FALSE, !.isLoading = FALSE,
                                   !.requests = isoRequests(c.out.value)]
                ELSE [board EXCEPT !.awaiting = FALSE, !.isLoading = FALSE,
                                   !.error = "Failed to load requests."]
    /\ UNCHANGED <<store, calls, mock, hist, map, app, form, profile, messagesView, newListingForm>>

\* the user leaves the board
IsoBoard_unmount ==
    /\ board.mounted
    /\ board' = BoardInit
    /\ UNCHANGED <<store, calls, mock, hist, map, app, form, profile, messagesView, newListingForm>>

BoardListings ==
    {ListingData("u1", REQUEST, "swap", "silk", London),
     ListingData("u1", REQUEST, "swap", "wool", NearAntipode),
     ListingData("u1", OFFER, "free", "denim", Origin)}

\* the board on one client, listings posted and deleted on the other
NextBoard ==
    \/ fetchRequests(1)
    \/ getNearbyListings_loop(1)
    \/ getNearbyListings_return(1)
    \/ fetchRequests_settled
    \/ IsoBoard_unmount
    \/ \E listingData \in BoardListings : createListing(2, listingData)
    \/ createListing_getDoc(2)
    \/ \E listingId \in ListingIds : deleteListing(2, listingId)

SpecBoard == InitOneUser /\ [][NextBoard]_vars

\* C16: when the board's fetch has succeeded, the board shows exactly the
\* listings that were stored with postType request when the fetch ran,
\* wherever they are located
C16_AllRequestsShown ==
    [][(board.awaiting /\ ~board'.awaiting /\ board'.mounted /\ board'.error = "")
       => IdsOf(board'.requests) = hist.atQuery[board.proc]]_vars

(***************************************************************************)
(* SpecChat: two clients sending messages into two conversations.          *)
(***************************************************************************)
ChatTexts == {"hi", "yo"}

\* the conversations of the first user with two others, no message sent yet
InitChat ==
    /\ users = ("u1" :> UserDoc("u1")) @@ ("u2" :> UserDoc("u2"))
    /\ accounts = ("crafter@example.com" :> Account("u1", "secret1", "Alice", FALSE))
                  @@ ("designer@example.com" :> Account("u2", "secret1", "Bob", FALSE))
    /\ session = [user |-> NoFirebaseUser, pending |-> FALSE]
    /\ listings = Empty /\ gallery = Empty /\ messages = Empty
    /\ conversations = (1 :> Conversation("u1", "u2")) @@ (2 :> Conversation("u1", "u3"))
    /\ objects = Empty /\ clock = 0
    /\ usedIds = [listings |-> {}, conversations |-> {1, 2}]
    /\ calls = [p \in Procs |-> IdleCall]
    /\ InitViews
    /\ mock = MockInit
    /\ hist = NoHist

NextChat ==
    \E p \in Procs :
       \/ \E conversationId \in {1, 2}, text \in ChatTexts :
             sendMessage(p, conversationId, IF p = 1 THEN "u1" ELSE "u2", text)
       \/ sendMessage_updateDoc(p)

SpecChat == InitChat /\ [][NextChat]_vars

\* no sendMessage call is between its start and its end
Quiescent == \A p \in Procs : ~(calls[p].op = "sendMessage" /\ calls[p].pc # "done")

\* C17: whenever no sendMessage call is in flight, the lastMessageText of
\* every conversation that has messages is the text of the message added last
\* to its messages sub-collection
C17_LastMessageTextIsLatest ==
    Quiescent =>
        \A id \in DOMAIN messages :
            (id \in DOMAIN conversations /\ messages[id] # <<>>) =>
                conversations[id].lastMessageText = messages[id][Len(messages[id])].text

(***************************************************************************)
(* SpecConvAny: the conversation lookup called with any two user ids, the  *)
(* same id twice included, one call at a time.                             *)
(***************************************************************************)
AnyPairs == Uids \X Uids

NextConvAny ==
    \/ \E pr \in AnyPairs : getOrCreateConversation(1, pr[1], pr[2])
    \/ getOrCreateConversation_scan(1)

SpecConvAny == InitOneUser /\ [][NextConvAny]_vars

\* the participants of a conversation document, as a set
ParticipantSet(conversation) ==
    {conversation.participantIds[k] : k \in DOMAIN conversation.participantIds}

\* C18: the id getOrCreateConversation(user1, user2) returns is the id of a
\* stored conversation whose participants are exactly user1 and user2, also
\* when user1 = user2
C18_ReturnedThreadIsThePairs ==
    \A p \in Procs :
        LET c == calls[p] IN
        (c.op = "getOrCreateConversation" /\ c.out.kind = "returned") =>
            /\ c.out.value \in DOMAIN conversations
            /\ ParticipantSet(conversations[c.out.value]) = {c.args.user1Id, c.args.user2Id}

(***************************************************************************)
(* The map view's fetches, search, geolocation and delete.                 *)
(***************************************************************************)
\* fetchListings(location) up to its await, on client p, from the map state m
\* its caller has reached: setIsLoading(true), setError(null), the search
\* with a radius of 15 km
fetchListings(m, p, location) ==
    /\ map' = [m EXCEPT !.isLoading = TRUE, !.error = "",
                        !.pending[p] = [kind |-> "fetch", center |-> location]]
    /\ getNearbyListings_begin(p, location, 15)

\* the effect [center, fetchListings] on mount
MapView_mount(p) ==
    /\ ~map.mounted
    /\ CanStart(p)
    /\ fetchListings([map EXCEPT !.mounted = TRUE], p, map.center)
    /\ hist' = Started(hist)
    /\ UNCHANGED <<store, mock, app, form, profile, board, messagesView, newListingForm>>

\* a fetchListings whose catch block sets the error and nothing else
fetchListings_settled_noFinally(p) ==
    LET c == calls[p] IN
    /\ map.pending[p].kind = "fetch"
    /\ c.op = "getNearbyListings" /\ c.pc = "done"
    /\ IF c.out.kind = "returned"
       THEN /\ map' = FilterEffect([map EXCEPT !.listings = c.out.value,
                                               !.isLoading = FALSE,
                                               !.pending[p] = NoPending])
            /\ hist' = [hist EXCEPT !.shown = <<c.args.center>>]
       ELSE /\ map' = [map EXCEPT !.error = "Failed to fetch listings. Please try again.",
                                  !.pending[p] = NoPending]
            /\ UNCHANGED hist
    /\ calls' = [calls EXCEPT ![p] = IdleCall]
    /\ UNCHANGED <<store, mock, app, form, profile, board, messagesView, newListingForm>>

\* the rest of fetchListings: setListings(nearbyListings) (and the filter
\* effect) or setError, then setIsLoading(false); the settled call is gone
fetchListings_settled(p) ==
    LET c == calls[p] IN
    /\ map.pending[p].kind = "fetch"
    /\ c.op = "getNearbyListings" /\ c.pc = "done"
    /\ IF c.out.kind = "returned"
       THEN /\ map' = FilterEffect([map EXCEPT !.listings = c.out.value,
                                               !.isLoading = FALSE,
                                               !.pending[p] = NoPending])
            /\ hist' = [hist EXCEPT !.shown = <<c.args.center>>]
       ELSE /\ map' = [map EXCEPT !.error = "Failed to fetch listings. Please try again.",
                                  !.isLoading = FALSE,
                                  !.pending[p] = NoPending]
            /\ UNCHANGED hist
    /\ calls' = [calls EXCEPT ![p] = IdleCall]
    /\ UNCHANGED <<store, mock, app, form, profile, board, messagesView, newListingForm>>

\* the search box's onChange
setSearchQuery(text) ==
    /\ map.mounted
    /\ map.searchQuery # text
    /\ map' = [map EXCEPT !.searchQuery = text]
    /\ UNCHANGED <<store, calls, mock, hist, app, form, profile, board,
                   messagesView, newListingForm>>

\* handleSearch up to its await of geocode; the submit button is disabled
\* while isLoading, an empty query returns at once
handleSearch(p) ==
    /\ map.mounted /\ ~map.isLoading
    /\ map.searchQuery # <<>>
    /\ CanStart(p)
    /\ map' = [map EXCEPT !.isLoading = TRUE,
                          !.pending[p] = [kind |-> "search", center |-> map.center]]
    /\ geocode_begin(p, map.searchQuery)
    /\ hist' = Started(hist)
    /\ UNCHANGED <<store, mock, app, form, profile, board, messagesView, newListingForm>>

\* the rest of handleSearch: setCenter(newLocation), on which the effect
\* fetches around the new center; or setError and setIsLoading(false)
handleSearch_settled(p) ==
    LET c == calls[p] IN
    /\ map.pending[p].kind = "search"
    /\ c.op = "geocode" /\ c.pc = "done"
    /\ IF c.out.kind = "returned"
       THEN fetchListings([map EXCEPT !.center = c.out.value], p, c.out.value)
       ELSE /\ map' = [map EXCEPT !.error = "Could not find that location. Please try another.",
                                  !.isLoading = FALSE,
                                  !.pending[p] = NoPending]
            /\ calls' = [calls EXCEPT ![p] = IdleCall]
    /\ UNCHANGED <<store, mock, hist, app, form, profile, board, messagesView, newListingForm>>

MyLocation == <<"M", "y", " ", "L", "o", "c", "a", "t", "i", "o", "n">>

\* handleUseMyLocation: with navigator.geolocation, setIsLoading(true) and
\* getCurrentPosition; without it, the error only
handleUseMyLocation ==
    /\ map.mounted /\ ~map.isLoading /\ ~map.locating
    /\ \/ /\ hist.capped => hist.started < MaxCalls
          /\ map' = [map EXCEPT !.isLoading = TRUE, !.locating = TRUE]
          /\ hist' = Started(hist)
       \/ /\ map' = [map EXCEPT !.error = "Geolocation is not supported by your browser."]
          /\ UNCHANGED hist
    /\ UNCHANGED <<store, calls, mock, app, form, profile, board, messagesView, newListingForm>>

\* getCurrentPosition's success callback: setCenter, setSearchQuery, and the
\* effect's fetch around the new center
getCurrentPosition_success(p, position) ==
    /\ map.locating
    /\ calls[p].pc \in {"idle", "done"} /\ ~Awaited(p)
    /\ fetchListings([map EXCEPT !.center = position, !.searchQuery = MyLocation,
                                 !.locating = FALSE], p, position)
    /\ UNCHANGED <<store, mock, hist, app, form, profile, board, messagesView, newListingForm>>

\* getCurrentPosition's error callback
getCurrentPosition_error ==
    /\ map.locating
    /\ map' = [map EXCEPT !.error = "Could not get your location. Please enable location services.",
                          !.isLoading = FALSE, !.locating = FALSE]
    /\ UNCHANGED <<store, calls, mock, hist, app, form, profile, board,
                   messagesView, newListingForm>>

\* handleDelete of the k-th marker, confirmed, up to its await of
\* deleteListing; the button is there for the owner only
handleDelete(p, k) ==
    /\ map.mounted
    /\ k \in DOMAIN map.filteredListings
    /\ app.user # NoUser /\ app.user.id = map.filteredListings[k].userId
    /\ deleteListing_call(p, map.filteredListings[k].id)
    /\ map' = [map EXCEPT !.pending[p] = [kind |-> "delete", center |-> map.center]]
    /\ hist' = Started(hist)
    /\ UNCHANGED <<app, form, profile, board, messagesView, newListingForm>>

\* the rest of handleDelete: fetchListings(center) with the center of the
\* render the handler was made in, or the alert
handleDelete_settled(p) ==
    LET c == calls[p] IN
    /\ map.pending[p].kind = "delete"
    /\ c.op = "deleteListing" /\ c.pc = "done"
    /\ IF c.out.kind = "returned"
       THEN fetchListings(map, p, map.pending[p].center)
       ELSE /\ map' = [map EXCEPT !.pending[p] = NoPending]
            /\ calls' = [calls EXCEPT ![p] = IdleCall]
    /\ UNCHANGED <<store, mock, hist, app, form, profile, board, messagesView, newListingForm>>

(***************************************************************************)
(* SpecMap: the map view of a signed-in user who owns two offers, one near *)
(* London and one near Manchester.                                         *)
(***************************************************************************)
MapQueries == { <<>>, <<"L", "e", "e", "d", "s">> }
Positions == {Origin}

InitMap ==
    /\ users = ("u1" :> UserDoc("u1"))
    /\ accounts = ("crafter@example.com" :> Account("u1", "secret1", "Alice", FALSE))
    /\ session = [user |-> FirebaseUser("u1", "crafter@example.com", "Alice"),
                  pending |-> FALSE]
    /\ app = [user |-> [id |-> "u1", email |-> "crafter@example.com", displayName |-> "Alice"],
              loadingAuth |-> FALSE, currentView |-> "map"]
    /\ listings = (1 :> ListingData("u1", OFFER, "free", "denim", Regents))
                  @@ (2 :> ListingData("u1", OFFER, "swap", "silk", Manchester))
    /\ usedIds = [listings |-> {1, 2}, conversations |-> {}]
    /\ gallery = Empty /\ conversations = Empty /\ messages = Empty
    /\ objects = Empty /\ clock = 0
    /\ calls = [p \in Procs |-> IdleCall]
    /\ map = MapInit /\ form = FormInit /\ profile = ProfileInit /\ board = BoardInit
    /\ messagesView = MessagesViewInit /\ newListingForm = NewListingFormInit
    /\ mock = MockInit
    /\ hist = [NoHist EXCEPT !.capped = TRUE]

\* what the backend, the geocoder and the browser do, and how the handlers
\* of the map view continue, for the call of client p
MapAnswers(p) ==
    \/ getNearbyListings_loop(p)
    \/ getNearbyListings_return(p)
    \/ geocode_fetch(p)
    \/ geocode_json(p)
    \/ fetchListings_settled(p)
    \/ handleSearch_settled(p)
    \/ handleDelete_settled(p)

\* getCurrentPosition calls one of its callbacks
PositionAnswers ==
    \/ \E position \in Positions : getCurrentPosition_success(1, position)
    \/ getCurrentPosition_error

\* the searches run on the first client, the deletes on the second; at most
\* MaxCalls handlers start
NextMap ==
    \/ MapView_mount(1)
    \/ \E text \in MapQueries : setSearchQuery(text)
    \/ handleSearch(1)
    \/ handleUseMyLocation
    \/ PositionAnswers
    \/ \E k \in 1..MaxListings : handleDelete(2, k)
    \/ \E p \in Procs : MapAnswers(p)

SpecMap == InitMap /\ [][NextMap]_vars

\* C19: whenever the map view is not loading and shows no error, the listings
\* it holds are the result of a fetch around its current center
C19_ListingsOfCurrentCenter ==
    (map.mounted /\ ~map.isLoading /\ map.error = "") => hist.shown = <<map.center>>

\* SpecMapLive: SpecMap where the effect on mount runs, every pending call is
\* answered and every continuation queued on the event loop is run
SpecMapLive ==
    /\ InitMap /\ [][NextMap]_vars
    /\ WF_vars(MapView_mount(1))
    /\ \A p \in Procs : WF_vars(MapAnswers(p))
    /\ WF_vars(PositionAnswers)

\* the step in which client p's geocode call hands handleSearch its result
SearchSettles(p) ==
    /\ map.pending[p].kind = "search" /\ map'.pending[p].kind # "search"
    /\ calls[p].op = "geocode" /\ calls[p].pc = "done"

\* the step in which client p's fetch hands fetchListings its result
FetchSettles(p) ==
    /\ map.pending[p].kind = "fetch" /\ map'.pending[p].kind # "fetch"

\* in the step's next state client p has begun getNearbyListings(center, 15)
\* for the map's new center and fetchListings waits for it with isLoading set
Refetches(p) ==
    /\ calls'[p].op = "getNearbyListings"
    /\ calls'[p].args = [center |-> map'.center, radiusInKm |-> 15]
    /\ map'.pending[p] = [kind |-> "fetch", center |-> map'.center]
    /\ map'.isLoading

\* C20: a search whose geocoding returns a location, and a use-my-location
\* whose position arrives, make that location the center and begin
\* getNearbyListings(center, 15) in the same step; when the fetch settles,
\* with a result or an error, and when geocoding or geolocation fails,
\* isLoading is set to false; and whenever isLoading is set it is cleared
\* again later
C20_LoadingEnds ==
    /\ [][\A p \in Procs :
            /\ (SearchSettles(p) /\ calls[p].out.kind = "returned")
                  => (map'.center = calls[p].out.value /\ Refetches(p))
            /\ (SearchSettles(p) /\ calls[p].out.kind = "threw") => ~map'.isLoading
            /\ FetchSettles(p) => ~map'.isLoading]_vars
    /\ [][(map.locating /\ ~map'.locating)
            => \/ ~map'.isLoading
               \/ \E p \in Procs : calls'[p] # calls[p] /\ Refetches(p)]_vars
    /\ (map.isLoading ~> ~map.isLoading)

\* a search has moved the map to Manchester and the fetch around it has
\* settled with its result
C20_Witness ==
    /\ map.mounted /\ ~map.isLoading /\ map.error = ""
    /\ map.center = Manchester
    /\ hist.shown = <<Manchester>>
    /\ \A p \in Procs : map.pending[p] = NoPending
    /\ Len(map.listings) = 1

(***************************************************************************)
(* The filter effect's result and frame.                                   *)
(***************************************************************************)
\* the three predicates of the filters, for the map state m
PassesPostType(m, l) == m.postTypeFilter = "all" \/ l.postType = m.postTypeFilter
PassesCategory(m, l) == m.categoryFilter = "all" \/ l.category = m.categoryFilter
PassesDealType(m, l) ==
    \/ m.listingTypeFilter = "all"
    \/ l.postType # OFFER
    \/ l.listingType = m.listingTypeFilter

\* the n-th predicate
Passes(n, m, l) ==
    CASE n = 1 -> PassesPostType(m, l)
      [] n = 2 -> PassesCategory(m, l)
      [] n = 3 -> PassesDealType(m, l)

\* the list filtered by the predicates in the given order
FilteredInOrder(m, order) ==
    LET first(l) == Passes(order[1], m, l)
        second(l) == Passes(order[2], m, l)
        third(l) == Passes(order[3], m, l)
    IN SelectSeq(SelectSeq(SelectSeq(m.listings, first), second), third)

Orders == { <<1, 2, 3>>, <<1, 3, 2>>, <<2, 1, 3>>, <<2, 3, 1>>, <<3, 1, 2>>, <<3, 2, 1>> }

\* C21: filteredListings is exactly the sub-array of listings whose rows
\* satisfy the post-type, the category and the deal-type predicate, and it is
\* what the three filters give in any order of application
C21_FilteredIsConjunction ==
    /\ map.filteredListings =
          SelectSeq(map.listings,
                    LAMBDA l : /\ PassesPostType(map, l)
                               /\ PassesCategory(map, l)
                               /\ PassesDealType(map, l))
    /\ \A order \in Orders : FilteredInOrder(map, order) = map.filteredListings

\* all three filters are set and each of them removes a row the others keep
C21_Witness ==
    /\ map.postTypeFilter = OFFER /\ map.categoryFilter = "denim"
    /\ map.listingTypeFilter = "free"
    /\ Len(map.listings) = 4
    /\ Len(map.filteredListings) = 1

\* C22: a change of the post-type, category or deal-type filter starts no
\* backend call and leaves the store, listings, center, isLoading and error as
\* they were; filteredListings is recomputed from the new filters
C22_FilterChangeFrame ==
    [][ (\/ map'.postTypeFilter # map.postTypeFilter
         \/ map'.categoryFilter # map.categoryFilter
         \/ map'.listingTypeFilter # map.listingTypeFilter)
        => /\ calls' = calls
           /\ store' = store
           /\ map'.listings = map.listings
           /\ map'.center = map.center
           /\ map'.isLoading = map.isLoading
           /\ map'.error = map.error
           /\ map'.filteredListings =
                 filterListings(map.listings, map'.postTypeFilter,
                                map'.categoryFilter, map'.listingTypeFilter) ]_vars

\* fetched listings are held and a filter other than the initial ones hides
\* some of them
C22_Witness ==
    /\ ~map.isLoading
    /\ Len(map.listings) = 4
    /\ map.categoryFilter = "silk" /\ map.postTypeFilter = "all"
    /\ Len(map.filteredListings) = 2

(***************************************************************************)
(* The ISO board's help action.                                            *)
(***************************************************************************)
\* the help button's disabled attribute
HelpDisabled(b, user, request) == user = NoUser \/ b.sendingMessageId = request.id

\* the text of the help message; the request's id stands for its title
HelpText(request) == <<"Hi, I can help with your request for: ", request.id>>

\* a handleHelp without its own-request check
handleHelp_noOwnerCheck(p, k) ==
    /\ board.mounted /\ k \in DOMAIN board.requests
    /\ LET request == board.requests[k] IN
       /\ ~HelpDisabled(board, app.user, request)
       /\ IF app.user = NoUser
          THEN /\ board' = [board EXCEPT !.alert = "Please sign in to send messages"]
               /\ UNCHANGED <<store, calls, mock, hist>>
          ELSE /\ board' = [board EXCEPT
                               !.sendingMessageId = request.id,
                               !.helping[p] = [kind |-> "lookup", requestId |-> request.id,
                                               userId |-> app.user.id]]
               /\ getOrCreateConversation_call(p, app.user.id, request.userId)
    /\ UNCHANGED <<map, app, form, profile, messagesView, newListingForm>>

\* a click on the help button of the k-th request: handleHelp up to its await
\* of getOrCreateConversation, or its early return with an alert
handleHelp(p, k) ==
    /\ board.mounted /\ k \in DOMAIN board.requests
    /\ LET request == board.requests[k] IN
       /\ ~HelpDisabled(board, app.user, request)
       /\ IF app.user = NoUser
          THEN /\ board' = [board EXCEPT !.alert = "Please sign in to send messages"]
               /\ UNCHANGED <<store, calls, mock, hist>>
          ELSE IF app.user.id = request.userId
          THEN /\ board' = [board EXCEPT !.alert = "You cannot message yourself!"]
               /\ UNCHANGED <<store, calls, mock, hist>>
          ELSE /\ board' = [board EXCEPT
                               !.sendingMessageId = request.id,
                               !.helping[p] = [kind |-> "lookup", requestId |-> request.id,
                                               userId |-> app.user.id]]
               /\ getOrCreateConversation_call(p, app.user.id, request.userId)
    /\ UNCHANGED <<map, app, form, profile, messagesView, newListingForm>>

\* a handleHelp that sends its message whether or not the lookup succeeded
handleHelp_lookedUp_sendAnyway(p) ==
    LET c == calls[p]
        h == board.helping[p]
    IN
    /\ h.kind = "lookup"
    /\ c.op = "getOrCreateConversation" /\ c.pc = "done"
    /\ board' = [board EXCEPT !.helping[p].kind = "send"]
    /\ sendMessage_begin(p, IF c.out.kind = "returned" THEN c.out.value ELSE 1,
                         h.userId, HelpText([id |-> h.requestId]))
    /\ UNCHANGED <<hist, map, app, form, profile, messagesView, newListingForm>>

\* handleHelp after getOrCreateConversation: sendMessage(convoId, user.id,
\* text) up to its await; or the catch block's alert and the finally block
handleHelp_lookedUp(p) ==
    LET c == calls[p]
        h == board.helping[p]
    IN
    /\ h.kind = "lookup"
    /\ c.op = "getOrCreateConversation" /\ c.pc = "done"
    /\ IF c.out.kind = "returned"
       THEN /\ board' = [board EXCEPT !.helping[p].kind = "send"]
            /\ sendMessage_begin(p, c.out.value, h.userId, HelpText([id |-> h.requestId]))
       ELSE /\ board' = [board EXCEPT !.alert = c.out.value, !.sendingMessageId = 0,
                                      !.helping[p] = NoHelp]
            /\ calls' = [calls EXCEPT ![p] = IdleCall]
            /\ UNCHANGED <<store, mock>>
    /\ UNCHANGED <<hist, map, app, form, profile, messagesView, newListingForm>>

\* handleHelp after sendMessage: the alert of the try or of the catch block,
\* then setSendingMessageId(null); the settled call is gone
handleHelp_settled(p) ==
    LET c == calls[p] IN
    /\ board.helping[p].kind = "send"
    /\ c.op = "sendMessage" /\ c.pc = "done"
    /\ board' = [board EXCEPT
                    !.alert = IF c.out.kind = "returned"
                              THEN "Message sent! They will be able to see your message in their conversations."
                              ELSE c.out.value,
                    !.sendingMessageId = 0,
                    !.helping[p] = NoHelp]
    /\ calls' = [calls EXCEPT ![p] = IdleCall]
    /\ UNCHANGED <<store, mock, hist, map, app, form, profile, messagesView, newListingForm>>

(***************************************************************************)
(* SpecHelp: the board over three stored requests, two of other users and  *)
(* one of the first user, shown to the first user or to nobody signed in.  *)
(***************************************************************************)
InitHelp ==
    /\ users = ("u1" :> UserDoc("u1")) @@ ("u2" :> UserDoc("u2"))
    /\ accounts = ("crafter@example.com" :> Account("u1", "secret1", "Alice", FALSE))
                  @@ ("designer@example.com" :> Account("u2", "secret1", "Bob", FALSE))
    /\ \/ /\ session = [user |-> FirebaseUser("u1", "crafter@example.com", "Alice"),
                        pending |-> FALSE]
          /\ app = [user |-> [id |-> "u1", email |-> "crafter@example.com",
                              displayName |-> "Alice"],
                    loadingAuth |-> FALSE, currentView |-> "map"]
       \/ /\ session = [user |-> NoFirebaseUser, pending |-> FALSE]
          /\ app = [user |-> NoUser, loadingAuth |-> FALSE, currentView |-> "map"]
    /\ listings = (1 :> ListingData("u2", REQUEST, "swap", "silk", London))
                  @@ (2 :> ListingData("u3", REQUEST, "swap", "wool", Regents))
                  @@ (3 :> ListingData("u1", REQUEST, "swap", "denim", London))
    /\ usedIds = [listings |-> {1, 2, 3}, conversations |-> {}]
    /\ gallery = Empty /\ conversations = Empty /\ messages = Empty
    /\ objects = Empty /\ clock = 0
    /\ calls = [p \in Procs |-> IdleCall]
    /\ map = MapInit /\ form = FormInit /\ profile = ProfileInit /\ board = BoardInit
    /\ messagesView = MessagesViewInit /\ newListingForm = NewListingFormInit
    /\ mock = MockInit
    /\ hist = [NoHist EXCEPT !.capped = TRUE]

NextHelp ==
    \/ fetchRequests(1)
    \/ getNearbyListings_loop(1)
    \/ getNearbyListings_return(1)
    \/ fetchRequests_settled
    \/ \E p \in Procs : \E k \in 1..3 : handleHelp(p, k)
    \/ \E p \in Procs : getOrCreateConversation_scan(p)
    \/ \E p \in Procs : handleHelp_lookedUp(p)
    \/ \E p \in Procs : sendMessage_updateDoc(p)
    \/ \E p \in Procs : handleHelp_settled(p)

SpecHelp == InitHelp /\ [][NextHelp]_vars

\* the step is the early return of a help click on the user's own request
OwnRequestAlert ==
    /\ board'.alert = "You cannot message yourself!"
    /\ board.alert # board'.alert

\* C23: with no user signed in no help action changes anything, and a help
\* click on the signed-in user's own request returns early: no handleHelp is
\* ever waiting on a request of its own user, no conversation of a user with
\* themself is stored, the store is unchanged by the click and
\* sendingMessageId stays as it was (null when nothing is being sent)
C23_NoHelpWithoutUserOrForOwnRequest ==
    /\ [](\A p \in Procs :
            board.helping[p].kind # "" =>
               /\ board.helping[p].userId # NoUser.id
               /\ listings[board.helping[p].requestId].userId # board.helping[p].userId)
    /\ [](\A id \in DOMAIN conversations :
            conversations[id].participantIds[1] # conversations[id].participantIds[2])
    /\ [][app.user = NoUser
            => /\ store' = store
               /\ \A p \in Procs : calls'[p].op \notin {"getOrCreateConversation", "sendMessage"}
               /\ board'.sendingMessageId = 0
               /\ \A p \in Procs : board'.helping[p] = NoHelp]_vars
    /\ [][OwnRequestAlert
            => /\ store' = store /\ calls' = calls
               /\ board'.sendingMessageId = board.sendingMessageId
               /\ board'.helping = board.helping]_vars

\* the first user has clicked help on the own request: the alert is up,
\* nothing is stored and nothing is being sent
C23_Witness ==
    /\ app.user.id = "u1"
    /\ board.alert = "You cannot message yourself!"
    /\ conversations = Empty /\ messages = Empty
    /\ board.sendingMessageId = 0
    /\ \A p \in Procs : calls[p] = IdleCall

\* C24: a message is stored only by the step in which a handleHelp whose
\* getOrCreateConversation has returned calls sendMessage, with the id it
\* returned and the handler's user as sender; when the lookup threw, the
\* handler sends nothing and resets sendingMessageId; and when sendMessage
\* has settled, either way, sendingMessageId is reset to null
C24_LookupThenSend ==
    /\ [][\A p \in Procs :
            /\ (calls'[p].op = "sendMessage" /\ calls[p].op # "sendMessage")
                  => /\ board.helping[p].kind = "lookup"
                     /\ calls[p].op = "getOrCreateConversation"
                     /\ calls[p].out.kind = "returned"
                     /\ calls'[p].args.conversationId = calls[p].out.value
                     /\ calls'[p].args.senderId = app.user.id
                     /\ calls'[p].args.senderId = board.helping[p].userId
            /\ (board.helping[p].kind = "lookup" /\ board'.helping[p].kind # "lookup"
                /\ calls[p].out.kind = "threw")
                  => /\ messages' = messages
                     /\ calls'[p].op # "sendMessage"
                     /\ board'.sendingMessageId = 0
            /\ (board.helping[p].kind = "send" /\ board'.helping[p].kind # "send")
                  => board'.sendingMessageId = 0]_vars
    /\ [][messages' # messages
            => \E p \in Procs : calls'[p].op = "sendMessage" /\ calls[p].op # "sendMessage"]_vars

\* the help message for the first request is stored in the conversation of
\* the two users and the handler has finished
C24_Witness ==
    /\ board.alert = "Message sent! They will be able to see your message in their conversations."
    /\ board.sendingMessageId = 0
    /\ \E id \in DOMAIN conversations :
          /\ conversations[id].participantIds = <<"u1", "u2">>
          /\ id \in DOMAIN messages
          /\ messages[id] = << [senderId |-> "u1", text |-> HelpText([id |-> 1])] >>

\* C25: while a help action for a request is in flight, the help button of
\* that request is disabled
C25_ButtonDisabledWhileInFlight ==
    \A p \in Procs :
        board.helping[p].kind # "" =>
            HelpDisabled(board, app.user, [id |-> board.helping[p].requestId])

(***************************************************************************)
(* Messages view: the conversation list, the selected thread, sending.     *)
(* getUserConversations and getMessagesForConversation are not part of     *)
(* the sources at hand: each is one query of the store that returns its    *)
(* rows or re-throws a user-facing message.                                *)
(***************************************************************************)
\* getUserConversations up to its await of the query
getUserConversations_begin(p, userId) ==
    calls' = [calls EXCEPT ![p] = [IdleCall EXCEPT !.op = "getUserConversations",
                                                   !.pc = "getDocs",
                                                   !.args = [userId |-> userId]]]

\* the query answers: the ids of the threads whose participantIds hold the user
getUserConversations_getDocs(p) ==
    LET c == calls[p]
        own == {id \in DOMAIN conversations :
                   Includes(conversations[id].participantIds, c.args.userId)}
    IN
    /\ c.op = "getUserConversations" /\ c.pc = "getDocs"
    /\ \/ calls' = [calls EXCEPT ![p] = Returned(Logged(c, "getDocs", 0, TRUE), SortedSeq(own))]
       \/ \E e \in StoreErrors :
             calls' = [calls EXCEPT ![p] =
                          CaughtAuth(c, "getDocs", e, "Failed to fetch conversations. Please try again.")]
    /\ UNCHANGED <<store, mock, hist, views>>

\* getMessagesForConversation up to its await of the query
getMessagesForConversation_begin(p, conversationId) ==
    calls' = [calls EXCEPT ![p] = [IdleCall EXCEPT !.op = "getMessagesForConversation",
                                                   !.pc = "getDocs",
                                                   !.args = [conversationId |-> conversationId]]]

\* a Message as the service returns it
MessageOf(conversationId, data) ==
    [conversationId |-> conversationId, senderId |-> data.senderId, text |-> data.text]

\* the query answers: the documents of the thread's messages sub-collection
getMessagesForConversation_getDocs(p) ==
    LET c == calls[p]
        id == c.args.conversationId
        docs == IF id \in DOMAIN messages THEN messages[id] ELSE <<>>
    IN
    /\ c.op = "getMessagesForConversation" /\ c.pc = "getDocs"
    /\ \/ calls' = [calls EXCEPT ![p] =
                       Returned(Logged(c, "getDocs", 0, TRUE),
                                [i \in 1..Len(docs) |-> MessageOf(id, docs[i])])]
       \/ \E e \in StoreErrors :
             calls' = [calls EXCEPT ![p] =
                          CaughtAuth(c, "getDocs", e, "Failed to fetch messages. Please try again.")]
    /\ UNCHANGED <<store, mock, hist, views>>

\* the effect on mount: loadConversations up to its await
MessagesView_mount(p) ==
    /\ ~app.loadingAuth /\ app.user # NoUser
    /\ ~messagesView.mounted
    /\ CanStart(p)
    /\ getUserConversations_begin(p, app.user.id)
    /\ messagesView' = [messagesView EXCEPT
                           !.mounted = TRUE, !.loadingConversations = TRUE,
                           !.pending[p] = [NoLoad EXCEPT !.kind = "conversations"]]
    /\ hist' = Started(hist)
    /\ UNCHANGED <<store, mock, map, app, form, profile, board, newListingForm>>

\* the effect on selectedConversation: loadMessages up to its await
loadMessages(m, p, conversationId) ==
    /\ getMessagesForConversation_begin(p, conversationId)
    /\ messagesView' = [m EXCEPT
                           !.loadingMessages = TRUE,
                           !.pending[p] = [NoLoad EXCEPT !.kind = "load",
                                                         !.conversationId = conversationId]]

\* the rest of loadConversations: setConversations, the first thread selected
\* (whose effect starts loadMessages), or setError; finally
\* setLoadingConversations(false)
loadConversations_settled(p) ==
    LET c == calls[p]
        m == [messagesView EXCEPT !.loadingConversations = FALSE,
                                  !.pending[p] = NoLoad]
    IN
    /\ messagesView.pending[p].kind = "conversations" /\ c.pc = "done"
    /\ IF c.out.kind = "returned" /\ c.out.value # <<>>
       THEN loadMessages([m EXCEPT !.conversations = c.out.value,
                                   !.selectedConversation = c.out.value[1]],
                         p, c.out.value[1])
       ELSE /\ calls' = [calls EXCEPT ![p] = IdleCall]
            /\ messagesView' =
                  IF c.out.kind = "returned" THEN [m EXCEPT !.conversations = c.out.value]
                  ELSE [m EXCEPT !.error = c.out.value]
    /\ UNCHANGED <<store, mock, hist, map, app, form, profile, board, newListingForm>>

\* a click on another thread of the list: setSelectedConversation(convo), and
\* the effect on selectedConversation
setSelectedConversation(p, conversationId) ==
    /\ messagesView.mounted /\ ~messagesView.loadingConversations
    /\ \E i \in 1..Len(messagesView.conversations) :
          messagesView.conversations[i] = conversationId
    /\ conversationId # messagesView.selectedConversation
    /\ CanStart(p)
    /\ loadMessages([messagesView EXCEPT !.selectedConversation = conversationId],
                    p, conversationId)
    /\ hist' = Started(hist)
    /\ UNCHANGED <<store, mock, map, app, form, profile, board, newListingForm>>

\* the rest of loadMessages: setMessages(msgs) or setError(...); finally
\* setLoadingMessages(false)
loadMessages_settled(p) ==
    LET c == calls[p]
        m == [messagesView EXCEPT !.loadingMessages = FALSE, !.pending[p] = NoLoad]
    IN
    /\ messagesView.pending[p].kind = "load" /\ c.pc = "done"
    /\ calls' = [calls EXCEPT ![p] = IdleCall]
    /\ messagesView' = IF c.out.kind = "returned" THEN [m EXCEPT !.messages = c.out.value]
                       ELSE [m EXCEPT !.error = c.out.value]
    /\ UNCHANGED <<store, mock, hist, map, app, form, profile, board, newListingForm>>

\* the input of the chat window, disabled while a message is being sent
setNewMessageText(text) ==
    /\ messagesView.selectedConversation # 0 /\ ~messagesView.sendingMessage
    /\ text # messagesView.newMessageText
    /\ messagesView' = [messagesView EXCEPT !.newMessageText = text]
    /\ UNCHANGED <<store, calls, mock, hist, map, app, form, profile, board, newListingForm>>

\* handleSendMessage up to its first await (the button is disabled while the
\* text is empty or a message is being sent)
handleSendMessage(p) ==
    /\ messagesView.newMessageText # "" /\ messagesView.selectedConversation # 0
    /\ ~messagesView.sendingMessage
    /\ CanStart(p)
    /\ sendMessage_begin(p, messagesView.selectedConversation, app.user.id,
                         messagesView.newMessageText)
    /\ messagesView' = [messagesView EXCEPT
                           !.sendingMessage = TRUE,
                           !.pending[p] = [kind |-> "send",
                                           conversationId |-> messagesView.selectedConversation,
                                           messages |-> messagesView.messages]]
    /\ hist' = Started(hist)
    /\ UNCHANGED <<map, app, form, profile, board, newListingForm>>

\* handleSendMessage after sendMessage: the optimistic setMessages([...messages,
\* newMessage]) with the messages and the thread of the handler's closure,
\* setNewMessageText(''), and the reload up to its await; or the catch and
\* the finally
handleSendMessage_sent(p) ==
    LET c == calls[p]
        h == messagesView.pending[p]
    IN
    /\ h.kind = "send" /\ c.pc = "done"
    /\ IF c.out.kind = "returned"
       THEN /\ getMessagesForConversation_begin(p, h.conversationId)
            /\ messagesView' = [messagesView EXCEPT
                                   !.messages = Append(h.messages,
                                                       MessageOf(h.conversationId, c.args)),
                                   !.newMessageText = "",
                                   !.pending[p].kind = "reload"]
       ELSE /\ calls' = [calls EXCEPT ![p] = IdleCall]
            /\ messagesView' = [messagesView EXCEPT
                                   !.error = c.out.value, !.sendingMessage = FALSE,
                                   !.pending[p] = NoLoad]
    /\ UNCHANGED <<store, mock, hist, map, app, form, profile, board, newListingForm>>

\* the rest of handleSendMessage: setMessages(msgs) or setError(...); finally
\* setSendingMessage(false)
handleSendMessage_settled(p) ==
    LET c == calls[p]
        m == [messagesView EXCEPT !.sendingMessage = FALSE, !.pending[p] = NoLoad]
    IN
    /\ messagesView.pending[p].kind = "reload" /\ c.pc = "done"
    /\ calls' = [calls EXCEPT ![p] = IdleCall]
    /\ messagesView' = IF c.out.kind = "returned" THEN [m EXCEPT !.messages = c.out.value]
                       ELSE [m EXCEPT !.error = c.out.value]
    /\ UNCHANGED <<store, mock, hist, map, app, form, profile, board, newListingForm>>

(***************************************************************************)
(* SpecMessages: the first user in the messages view with two threads.     *)
(***************************************************************************)
\* the first user signed in, a thread with the second user that holds one
\* message and an empty thread with the third
InitMessages ==
    /\ users = ("u1" :> UserDoc("u1")) @@ ("u2" :> UserDoc("u2")) @@ ("u3" :> UserDoc("u3"))
    /\ accounts = ("crafter@example.com" :> Account("u1", "secret1", "Alice", FALSE))
    /\ session = [user |-> FirebaseUser("u1", "crafter@example.com", "Alice"),
                  pending |-> FALSE]
    /\ listings = Empty /\ gallery = Empty
    /\ conversations = (1 :> [Conversation("u1", "u2") EXCEPT !.lastMessageText = "yo"])
                       @@ (2 :> Conversation("u1", "u3"))
    /\ messages = (1 :> << [senderId |-> "u2", text |-> "yo"] >>)
    /\ objects = Empty /\ clock = 0
    /\ usedIds = [listings |-> {}, conversations |-> {1, 2}]
    /\ calls = [p \in Procs |-> IdleCall]
    /\ map = MapInit /\ form = FormInit /\ profile = ProfileInit /\ board = BoardInit
    /\ messagesView = MessagesViewInit /\ newListingForm = NewListingFormInit
    /\ app = [user |-> UserOf("u1"), loadingAuth |-> FALSE, currentView |-> "map"]
    /\ mock = MockInit
    /\ hist = [NoHist EXCEPT !.capped = TRUE]

NextMessages ==
    \/ MessagesView_mount(1)
    \/ \E text \in {"", "hi"} : setNewMessageText(text)
    \/ \E p \in Procs :
          \/ getUserConversations_getDocs(p)
          \/ loadConversations_settled(p)
          \/ \E conversationId \in {1, 2} : setSelectedConversation(p, conversationId)
          \/ getMessagesForConversation_getDocs(p)
          \/ loadMessages_settled(p)
          \/ handleSendMessage(p)
          \/ sendMessage_updateDoc(p)
          \/ handleSendMessage_sent(p)
          \/ handleSendMessage_settled(p)

SpecMessages == InitMessages /\ [][NextMessages]_vars

\* no load and no send of the messages view is between its start and its end
NoMessageCallInFlight ==
    \A p \in Procs : messagesView.pending[p].kind \notin {"load", "send", "reload"}

\* C26: whenever no load and no send of the messages view is in flight and
\* no error is shown, every message in the view's state belongs to the
\* conversation that is selected
C26_MessagesOfSelectedConversation ==
    (NoMessageCallInFlight /\ messagesView.error = "" /\ messagesView.selectedConversation # 0)
        => \A i \in 1..Len(messagesView.messages) :
              messagesView.messages[i].conversationId = messagesView.selectedConversation

(***************************************************************************)
(* App's navigation and the new-listing form.                              *)
(***************************************************************************)
Views == {"map", "newListing", "isoBoard", "gallery", "profile"}

\* an App that renders the current view whenever the auth state is known
Rendered_noUserCheck(a) ==
    IF a.loadingAuth THEN "spinner"
    ELSE a.currentView

\* what App returns: the spinner while the auth state is unknown, the
\* sign-in screen while no user is held, else the header and renderView()
Rendered(a) ==
    IF a.loadingAuth THEN "spinner"
    ELSE IF a.user = NoUser THEN "auth"
    ELSE a.currentView

\* the new-listing form's hooks after App rendered view: a form that is
\* rendered anew starts from its initial values, and the handlers of a form
\* that is gone stay suspended
FormRemount(f, a) ==
    IF Rendered(a) = "newListing" /\ Rendered(app) = "newListing" THEN f
    ELSE [NewListingFormInit EXCEPT
             !.pending = [p \in Procs |->
                            IF f.pending[p].kind = "" THEN NoSubmit
                            ELSE [f.pending[p] EXCEPT !.unmounted = TRUE]]]

\* a click in the header: setCurrentView(view)
setCurrentView(view) ==
    /\ Rendered(app) \in Views
    /\ view # app.currentView
    /\ app' = [app EXCEPT !.currentView = view]
    /\ newListingForm' = FormRemount(newListingForm, app')
    /\ UNCHANGED <<store, calls, mock, hist, map, form, profile, board, messagesView>>

\* the location input
setLocationName(text) ==
    /\ Rendered(app) = "newListing"
    /\ text # newListingForm.locationName
    /\ newListingForm' = [newListingForm EXCEPT !.locationName = text]
    /\ UNCHANGED <<store, calls, mock, hist, map, app, form, profile, board, messagesView>>

\* the file input: setImageFile(file)
handleImageChange(file) ==
    /\ Rendered(app) = "newListing"
    /\ file # newListingForm.imageFile
    /\ newListingForm' = [newListingForm EXCEPT !.imageFile = file]
    /\ UNCHANGED <<store, calls, mock, hist, map, app, form, profile, board, messagesView>>

\* handleSubmit up to its first await (the button is disabled while
\* isLoading, the location input is required): the early return without an
\* image, else setIsLoading(true), setError(null) and geocode(locationName)
NewListingForm_handleSubmit(p) ==
    /\ Rendered(app) = "newListing"
    /\ ~newListingForm.isLoading
    /\ newListingForm.locationName # <<>>
    /\ IF newListingForm.imageFile = NoFile
       THEN /\ newListingForm.error # "Please fill all fields and add an image."
            /\ newListingForm' = [newListingForm EXCEPT
                     !.error = "Please fill all fields and add an image."]
            /\ UNCHANGED <<calls, hist>>
       ELSE /\ CanStart(p)
            /\ geocode_begin(p, newListingForm.locationName)
            /\ newListingForm' = [newListingForm EXCEPT
                     !.isLoading = TRUE, !.error = "",
                     !.pending[p] = [NoSubmit EXCEPT !.kind = "geocode",
                                                     !.imageFile = newListingForm.imageFile,
                                                     !.locationName = newListingForm.locationName,
                                                     !.userId = app.user.id]]
            /\ hist' = Started(hist)
    /\ UNCHANGED <<store, mock, map, app, form, profile, board, messagesView>>

\* the catch and the finally of handleSubmit: setError(...), setIsLoading(false),
\* which do nothing once the form is gone
SubmitFailed(f, p) ==
    IF f.pending[p].unmounted THEN [f EXCEPT !.pending[p] = NoSubmit]
    ELSE [f EXCEPT !.error = "An error occurred. Please try again.",
                   !.isLoading = FALSE, !.pending[p] = NoSubmit]

\* handleSubmit after geocode: uploadImage(imageFile), or the catch and the finally
NewListingForm_handleSubmit_geocoded(p) ==
    LET c == calls[p]
        h == newListingForm.pending[p]
    IN
    /\ h.kind = "geocode" /\ c.pc = "done"
    /\ IF c.out.kind = "returned"
       THEN /\ uploadImage_begin(p, h.imageFile)
            /\ newListingForm' = [newListingForm EXCEPT
                     !.pending[p].kind = "upload", !.pending[p].location = c.out.value]
       ELSE /\ calls' = [calls EXCEPT ![p] = IdleCall]
            /\ newListingForm' = SubmitFailed(newListingForm, p)
            /\ UNCHANGED store
    /\ UNCHANGED <<mock, hist, map, app, form, profile, board, messagesView>>

\* a NewListingForm.handleSubmit that creates the listing whether or not the upload succeeded
NewListingForm_handleSubmit_uploaded_createAnyway(p) ==
    LET c == calls[p]
        h == newListingForm.pending[p]
    IN
    /\ h.kind = "upload" /\ c.pc = "done"
    /\ createListing_begin(p, ListingData(h.userId, newListingForm.postType,
                                          newListingForm.listingType,
                                          newListingForm.category, h.location))
    /\ newListingForm' = [newListingForm EXCEPT !.pending[p].kind = "create"]
    /\ UNCHANGED <<mock, hist, map, app, form, profile, board, messagesView>>

\* handleSubmit after uploadImage: createListing({...}), or the catch and the
\* finally
NewListingForm_handleSubmit_uploaded(p) ==
    LET c == calls[p]
        h == newListingForm.pending[p]
    IN
    /\ h.kind = "upload" /\ c.pc = "done"
    /\ IF c.out.kind = "returned"
       THEN /\ createListing_begin(p, ListingData(h.userId, newListingForm.postType,
                                                  newListingForm.listingType,
                                                  newListingForm.category, h.location))
            /\ newListingForm' = [newListingForm EXCEPT !.pending[p].kind = "create"]
       ELSE /\ calls' = [calls EXCEPT ![p] = IdleCall]
            /\ newListingForm' = SubmitFailed(newListingForm, p)
            /\ UNCHANGED store
    /\ UNCHANGED <<mock, hist, map, app, form, profile, board, messagesView>>

\* the rest of handleSubmit: onListingCreated(), which is App's
\* setCurrentView('map'), or the catch; finally setIsLoading(false)
NewListingForm_handleSubmit_settled(p) ==
    LET c == calls[p]
        h == newListingForm.pending[p]
        a == [app EXCEPT !.currentView = "map"]
        f == IF h.unmounted THEN [newListingForm EXCEPT !.pending[p] = NoSubmit]
             ELSE [newListingForm EXCEPT !.isLoading = FALSE, !.pending[p] = NoSubmit]
    IN
    /\ h.kind = "create" /\ c.pc = "done"
    /\ calls' = [calls EXCEPT ![p] = IdleCall]
    /\ IF c.out.kind = "returned"
       THEN /\ app' = a
            /\ newListingForm' = FormRemount(f, a)
       ELSE /\ app' = app
            /\ newListingForm' = SubmitFailed(newListingForm, p)
    /\ UNCHANGED <<store, mock, hist, map, form, profile, board, messagesView>>

(***************************************************************************)
(* SpecForm: the signed-in user posting listings from the new-listing form.*)
(***************************************************************************)
FormViews == {"map", "newListing"}
FormFile == [name |-> "denim.png", content |-> "D"]

\* the first user signed in on the map, nothing stored yet
InitForm ==
    /\ users = ("u1" :> UserDoc("u1"))
    /\ accounts = ("crafter@example.com" :> Account("u1", "secret1", "Alice", FALSE))
    /\ session = [user |-> FirebaseUser("u1", "crafter@example.com", "Alice"),
                  pending |-> FALSE]
    /\ listings = Empty /\ gallery = Empty /\ conversations = Empty /\ messages = Empty
    /\ objects = Empty /\ clock = 0 /\ usedIds = NoIds
    /\ calls = [p \in Procs |-> IdleCall]
    /\ map = MapInit /\ form = FormInit /\ profile = ProfileInit /\ board = BoardInit
    /\ messagesView = MessagesViewInit /\ newListingForm = NewListingFormInit
    /\ app = [user |-> UserOf("u1"), loadingAuth |-> FALSE, currentView |-> "map"]
    /\ mock = MockInit
    /\ hist = [NoHist EXCEPT !.capped = TRUE]

\* the form's submissions run on the first client, one after the other
NextForm ==
    \/ \E view \in FormViews : setCurrentView(view)
    \/ setLocationName(<<"L", "o", "n", "d", "o", "n">>)
    \/ handleImageChange(FormFile)
    \/ NewListingForm_handleSubmit(1)
    \/ geocode_fetch(1)
    \/ geocode_json(1)
    \/ NewListingForm_handleSubmit_geocoded(1)
    \/ uploadImage_getDownloadURL(1)
    \/ NewListingForm_handleSubmit_uploaded(1)
    \/ createListing_getDoc(1)
    \/ NewListingForm_handleSubmit_settled(1)

SpecForm == InitForm /\ [][NextForm]_vars

\* the stages a submission on client p passes through, in the order allowed
SubmitStages ==
    { <<"", "geocode">>, <<"geocode", "upload">>, <<"geocode", "">>,
      <<"upload", "create">>, <<"upload", "">>, <<"create", "">> }

\* C27: a submission calls geocode, then uploadImage, then createListing,
\* each only when the one before it returned: no submission runs without an
\* image, and the early return calls nothing; a submission whose geocode or
\* upload threw ends with nothing uploaded or created by it; an object is
\* stored only by a submission's uploadImage and a listing only by its
\* createListing, one listing per submission; and onListingCreated (the
\* view set to the map) runs exactly when createListing returned
C27_GeocodeUploadCreate ==
    /\ [](\A p \in Procs :
            newListingForm.pending[p].kind # "" =>
               newListingForm.pending[p].imageFile # NoFile)
    /\ [][newListingForm'.error = "Please fill all fields and add an image."
             /\ newListingForm.error # newListingForm'.error
          => calls' = calls /\ store' = store /\ app' = app]_vars
    /\ [][\A p \in Procs :
            LET h == newListingForm.pending[p]
                g == newListingForm'.pending[p]
            IN  h.kind # g.kind =>
                 /\ <<h.kind, g.kind>> \in SubmitStages
                 /\ h.kind = "" => calls'[p].op = "geocode" /\ store' = store
                 /\ (h.kind = "geocode" /\ g.kind = "upload")
                       => /\ calls[p].op = "geocode" /\ calls[p].out.kind = "returned"
                          /\ calls'[p].op = "uploadImage"
                          /\ calls'[p].args.file = h.imageFile
                          /\ listings' = listings
                 /\ (h.kind = "upload" /\ g.kind = "create")
                       => /\ calls[p].op = "uploadImage" /\ calls[p].out.kind = "returned"
                          /\ calls'[p].op = "createListing"
                          /\ calls'[p].args.listingData.location = h.location
                          /\ Cardinality(DOMAIN listings') <= Cardinality(DOMAIN listings) + 1
                 /\ (h.kind \in {"geocode", "upload"} /\ g.kind = "")
                       => /\ calls[p].out.kind = "threw"
                          /\ store' = store /\ calls'[p] = IdleCall
                 /\ h.kind # "create" => app' = app
                 /\ h.kind = "create"
                       => /\ calls[p].op = "createListing" /\ store' = store
                          /\ IF calls[p].out.kind = "returned"
                             THEN app'.currentView = "map"
                             ELSE app' = app]_vars
    /\ [][objects' # objects
            => \E p \in Procs : /\ newListingForm.pending[p].kind = "geocode"
                                /\ newListingForm'.pending[p].kind = "upload"]_vars
    /\ [][listings' # listings
            => \E p \in Procs : /\ newListingForm.pending[p].kind = "upload"
                                /\ newListingForm'.pending[p].kind = "create"]_vars

\* a submission has gone through: the image is stored, the listing is
\* stored at the geocoded point and the view is the map again
C27_Witness ==
    /\ \A p \in Procs : newListingForm.pending[p].kind = "" /\ calls[p] = IdleCall
    /\ app.currentView = "map"
    /\ DOMAIN objects # {}
    /\ \E id \in DOMAIN listings : listings[id].userId = "u1"

(***************************************************************************)
(* SpecShell: the sign-in screen, the auth gateway and App's navigation.   *)
(***************************************************************************)
NextShell ==
    \/ NextAuth
    \/ \E view \in Views : setCurrentView(view)

SpecShell == InitAuth /\ [][NextShell]_vars

\* the step is the rest of handleSignOut after a signOut that succeeded
SignedOut ==
    /\ calls[2].op = "signOut" /\ calls[2].pc = "done"
    /\ calls[2].out.kind = "returned"
    /\ calls'[2] = IdleCall

\* C28 as stated: a main view is rendered only when loadingAuth is false and
\* a user is held; whenever user is null the sign-in screen is shown; and
\* after a successful sign-out user is null
C28_SignInShownWheneverNoUser ==
    /\ [](Rendered(app) \in Views => ~app.loadingAuth /\ app.user # NoUser)
    /\ [](app.user = NoUser => Rendered(app) = "auth")
    /\ [][SignedOut => app'.user = NoUser]_vars

\* C28, amended: a main view is rendered only when loadingAuth is false and
\* a user is held; while loadingAuth is true the spinner is shown, with user
\* null; once loadingAuth is false and user is null the sign-in screen is
\* shown whatever currentView is; and after a successful sign-out user is
\* null and the sign-in screen is shown
C28_ShellGates ==
    /\ [](Rendered(app) \in Views => ~app.loadingAuth /\ app.user # NoUser)
    /\ [](app.loadingAuth => Rendered(app) = "spinner" /\ app.user = NoUser)
    /\ []((~app.loadingAuth /\ app.user = NoUser) => Rendered(app) = "auth")
    /\ [][SignedOut => app'.user = NoUser /\ Rendered(app') = "auth"]_vars

\* the user has signed out from the profile view: the sign-in screen is
\* shown while currentView still names the profile
C28_Witness ==
    /\ ~app.loadingAuth /\ app.user = NoUser
    /\ app.currentView = "profile"
    /\ session.user = NoFirebaseUser
    /\ Rendered(app) = "auth"

====
